---- MODULE Spec2Model ----
(***************************************************************************)
(* Model of the AI code assistant backend: the Express upload handler      *)
(* (backend/index.js) and the LLMService it drives (services/llmService.js).*)
(* Strings are sequences of one-character strings, so that splitting,      *)
(* trimming and length are computed as the code computes them.             *)
(***************************************************************************)
EXTENDS Integers, Sequences, FiniteSets, TLC

(***************************************************************************)
(* Bounds of the model.                                                    *)
(***************************************************************************)
\* number of upload requests that can be in flight at the same time
MaxReqs == 2
\* longest files array a request body carries
MaxFiles == 2
MaxPromptFiles == 3
\* panels the editor opens, and invocations of _handleUserMessage
MaxPanels == 2
MaxUserMessages == 2
\* postMessage calls the provider makes on the webviews
MaxPosted == 2
\* messages typed into the webview
MaxTyped == 1

Reqs == 1..MaxReqs
Panels == 1..MaxPanels
Handlers == 1..MaxUserMessages

(***************************************************************************)
(* JavaScript values as they arrive in req.body (parsed JSON).             *)
(***************************************************************************)
Undefined == [kind |-> "undefined", val |-> <<>>]
Null == [kind |-> "null", val |-> <<>>]
Bool(b) == [kind |-> "boolean", val |-> <<b>>]
Num(n) == [kind |-> "number", val |-> <<n>>]
Str(s) == [kind |-> "string", val |-> s]
Obj == [kind |-> "object", val |-> <<>>]
Arr(a) == [kind |-> "array", val |-> a]

\* JavaScript ToBoolean, as used by `!x`, `x && ...` and `x || ...`
Truthy(v) ==
    CASE v.kind = "undefined" -> FALSE
      [] v.kind = "null" -> FALSE
      [] v.kind = "boolean" -> v.val[1]
      [] v.kind = "number" -> v.val[1] # 0
      [] v.kind = "string" -> Len(v.val) > 0
      [] OTHER -> TRUE

\* typeof v === 'string'
TypeofString(v) == v.kind = "string"

\* Array.isArray(v)
IsArray(v) == v.kind = "array"

(***************************************************************************)
(* String helpers (String.prototype.split, trim, Array.prototype.pop).     *)
(***************************************************************************)
Whitespace == {" ", "\t", "\n", "\r"}

\* index of the first occurrence of the character ch in s from position i, 0 if none
IndexFrom(s, ch, i) ==
    LET hits == {k \in i..Len(s) : s[k] = ch}
    IN IF hits = {} THEN 0 ELSE CHOOSE k \in hits : \A o \in hits : k <= o

\* s.split(ch) for a one-character separator: always at least one segment
RECURSIVE SplitOn(_, _)
SplitOn(s, ch) ==
    LET k == IndexFrom(s, ch, 1)
    IN IF k = 0 THEN <<s>>
       ELSE <<SubSeq(s, 1, k - 1)>> \o SplitOn(SubSeq(s, k + 1, Len(s)), ch)

\* s.trim()
RECURSIVE Trim(_)
Trim(s) ==
    IF s = <<>> THEN s
    ELSE IF s[1] \in Whitespace THEN Trim(Tail(s))
    ELSE IF s[Len(s)] \in Whitespace THEN Trim(SubSeq(s, 1, Len(s) - 1))
    ELSE s

\* array.pop() on a non-empty array: its last element
Pop(a) == a[Len(a)]

\* array.filter(line => line.length > 0)
RECURSIVE NonEmptyOnly(_)
NonEmptyOnly(a) ==
    IF a = <<>> THEN <<>>
    ELSE IF Len(Head(a)) > 0 THEN <<Head(a)>> \o NonEmptyOnly(Tail(a))
    ELSE NonEmptyOnly(Tail(a))

\* array.slice(0, n)
Slice(a, n) == SubSeq(a, 1, IF Len(a) < n THEN Len(a) ELSE n)

(***************************************************************************)
(* LLMService.generateDirectoryTree.  The nested object it builds is       *)
(* represented as a function from key paths to nodes: the children of the  *)
(* node at path p are the entries at the paths p \o <<key>>.               *)
(***************************************************************************)
EmptyTree == <<>>

PreviewLines == 3

\* x || ''  for an optional string field
OrEmpty(v) == IF Truthy(v) THEN v.val ELSE <<>>

\* variant: the extension is what follows the last '.', without a fallback
FileNodeNoFallback(part, file) ==
    LET content == OrEmpty(file.content)
        lines == SplitOn(content, "\n")
        nonEmptyLines == NonEmptyOnly([i \in 1..Len(lines) |-> Trim(lines[i])])
    IN [type |-> "file",
        size |-> Len(content),
        extension |-> Pop(SplitOn(part, ".")),
        preview |-> Slice(nonEmptyLines, PreviewLines)]

\* variant: the first three lines are taken before the empty ones are dropped
FileNodeSliceFirst(part, file) ==
    LET content == OrEmpty(file.content)
        lines == Slice(SplitOn(content, "\n"), PreviewLines)
        ext == Pop(SplitOn(part, "."))
    IN [type |-> "file",
        size |-> Len(content),
        extension |-> IF Len(ext) > 0 THEN ext ELSE <<"u", "n", "k", "n", "o", "w", "n">>,
        preview |-> NonEmptyOnly([i \in 1..Len(lines) |-> Trim(lines[i])])]

\* lines 160-171: the node written at the last path segment
FileNode(part, file) ==
    LET content == OrEmpty(file.content)
        lines == SplitOn(content, "\n")
        nonEmptyLines == NonEmptyOnly([i \in 1..Len(lines) |-> Trim(lines[i])])
        ext == Pop(SplitOn(part, "."))
    IN [type |-> "file",
        size |-> Len(content),
        extension |-> IF Len(ext) > 0 THEN ext ELSE <<"u", "n", "k", "n", "o", "w", "n">>,
        preview |-> Slice(nonEmptyLines, PreviewLines)]

\* lines 175-178
DirectoryNode == [type |-> "directory"]

\* p is a proper extension of q
Below(p, q) == Len(p) > Len(q) /\ SubSeq(p, 1, Len(q)) = q

\* the directory prefixes of a path: every segment but the last
DirPrefixes(parts) == {SubSeq(parts, 1, i) : i \in 1..(Len(parts) - 1)}

\* variant: the walk never raises, as if a FileNode could be descended through
WalkNeverThrows(tree, parts) == FALSE

\* lines 172-181: descending through a key that holds a FileNode makes
\* `current` undefined, and the next iteration dereferences it: a TypeError
WalkThrows(tree, parts) ==
    \E d \in DirPrefixes(parts) : d \in DOMAIN tree /\ tree[d].type = "file"

\* variant: only a missing filename is skipped, an empty one gets a node
AddFileSkipsMissingOnly(tree, file) ==
    IF file.filename.kind = "undefined" THEN tree
    ELSE LET parts == SplitOn(file.filename.val, "/")
             kept == {p \in DOMAIN tree : ~Below(p, parts)}
             dom == kept \cup DirPrefixes(parts) \cup {parts}
         IN [p \in dom |->
                IF p = parts THEN FileNode(Pop(parts), file)
                ELSE IF p \in DOMAIN tree THEN tree[p]
                ELSE DirectoryNode]

\* variant: a path that already holds a FileNode is left as it is
AddFileKeepsExisting(tree, file) ==
    IF ~Truthy(file.filename) THEN tree
    ELSE LET parts == SplitOn(file.filename.val, "/")
             kept == {p \in DOMAIN tree : ~Below(p, parts)}
             dom == kept \cup DirPrefixes(parts) \cup {parts}
         IN IF parts \in DOMAIN tree /\ tree[parts].type = "file" THEN tree
            ELSE [p \in dom |->
                    IF p = parts THEN FileNode(Pop(parts), file)
                    ELSE IF p \in DOMAIN tree THEN tree[p]
                    ELSE DirectoryNode]

\* variant: the `if (!current[part])` guard is missing, so every directory on
\* the path is created anew, without the children it had
AddFileResetsDirectories(tree, file) ==
    IF ~Truthy(file.filename) THEN tree
    ELSE LET parts == SplitOn(file.filename.val, "/")
             kept == {p \in DOMAIN tree :
                         /\ ~Below(p, parts)
                         /\ \A d \in DirPrefixes(parts) : ~Below(p, d)}
             dom == kept \cup DirPrefixes(parts) \cup {parts}
         IN [p \in dom |->
                IF p = parts THEN FileNode(Pop(parts), file)
                ELSE IF p \in DOMAIN tree THEN tree[p]
                ELSE DirectoryNode]

\* lines 147-183, the forEach callback for one file that does not throw
AddFile(tree, file) ==
    IF ~Truthy(file.filename) THEN tree
    ELSE LET parts == SplitOn(file.filename.val, "/")
             kept == {p \in DOMAIN tree : ~Below(p, parts)}
             dom == kept \cup DirPrefixes(parts) \cup {parts}
         IN [p \in dom |->
                IF p = parts THEN FileNode(Pop(parts), file)
                ELSE IF p \in DOMAIN tree THEN tree[p]
                ELSE DirectoryNode]

\* the TypeError the runtime raises for a property access on undefined or null
TreeTypeError == <<"TypeError: property access on undefined or null">>

\* files.forEach(...) from the i-th file on
RECURSIVE BuildFrom(_, _, _)
BuildFrom(files, i, tree) ==
    IF i > Len(files) THEN [threw |-> FALSE, tree |-> tree]
    ELSE IF Truthy(files[i].filename)
            /\ WalkThrows(tree, SplitOn(files[i].filename.val, "/"))
         THEN [threw |-> TRUE, tree |-> EmptyTree]
    ELSE BuildFrom(files, i + 1, AddFile(tree, files[i]))

generateDirectoryTree(files) == BuildFrom(files, 1, EmptyTree)

(***************************************************************************)
(* LLMService.formatDirectoryTree.  Object.keys(tree).sort() orders the    *)
(* keys by UTF-16 code units; the order in which Object.keys lists them is *)
(* not represented, since sort() erases it.                                *)
(***************************************************************************)
\* the UTF-16 code unit of the characters that occur in keys
CharCode(c) ==
    CASE c = " " -> 32 [] c = "." -> 46 [] c = "/" -> 47
      [] c = "B" -> 66 [] c = "Z" -> 90
      [] c = "a" -> 97 [] c = "b" -> 98 [] c = "d" -> 100 [] c = "e" -> 101
      [] c = "z" -> 122

\* s < t for strings: the first differing code unit decides, a proper prefix is smaller
RECURSIVE StringLess(_, _)
StringLess(s, t) ==
    IF t = <<>> THEN FALSE
    ELSE IF s = <<>> THEN TRUE
    ELSE IF Head(s) # Head(t) THEN CharCode(Head(s)) < CharCode(Head(t))
    ELSE StringLess(Tail(s), Tail(t))

\* String.prototype.toLowerCase on one character
LowerCase(c) == IF c = "B" THEN "b" ELSE IF c = "Z" THEN "z" ELSE c

\* variant: the keys are sorted ignoring case
RECURSIVE SortedKeysIgnoringCase(_)
SortedKeysIgnoringCase(keys) ==
    IF keys = {} THEN <<>>
    ELSE LET Fold(k) == [i \in 1..Len(k) |-> LowerCase(k[i])]
             least == CHOOSE k \in keys :
                          \A o \in keys \ {k} :
                              StringLess(Fold(k), Fold(o)) \/ (Fold(k) = Fold(o) /\ StringLess(k, o))
         IN <<least>> \o SortedKeysIgnoringCase(keys \ {least})

\* line 197: Object.keys(tree).sort()
RECURSIVE SortedKeys(_)
SortedKeys(keys) ==
    IF keys = {} THEN <<>>
    ELSE LET least == CHOOSE k \in keys : \A o \in keys \ {k} : StringLess(k, o)
         IN <<least>> \o SortedKeys(keys \ {least})

\* the keys of the mapping held at path (the top-level mapping at <<>>)
ChildKeys(tree, path) ==
    {p[Len(p)] : p \in {q \in DOMAIN tree : Len(q) = Len(path) + 1 /\ Below(q, path)}}

\* the two icons, each one character of the output
FolderIcon == "U+1F4C1"
FileIcon == "U+1F4C4"

DecimalDigits == <<"0", "1", "2", "3", "4", "5", "6", "7", "8", "9">>

\* `${n}` for a non-negative integer
RECURSIVE NumberString(_)
NumberString(n) ==
    IF n < 10 THEN <<DecimalDigits[n + 1]>>
    ELSE NumberString(n \div 10) \o <<DecimalDigits[(n % 10) + 1]>>

\* the strings of an array one after the other
RECURSIVE Concat(_)
Concat(strings) ==
    IF strings = <<>> THEN <<>> ELSE Head(strings) \o Concat(Tail(strings))

\* line 201: `${indent}<folder> ${key}/\n`
DirectoryLine(key, indent) ==
    indent \o <<FolderIcon, " ">> \o key \o <<"/", "\n">>

\* variant: children are indented like preview lines, by three spaces
ChildIndentThree(indent) == indent \o <<" ", " ", " ">>

\* line 202: indent + '  '
ChildIndent(indent) == indent \o <<" ", " ">>

\* variant: the "..." line is written inside the `if`, only after a preview
FileLinesMarkerAfterPreview(key, item, indent) ==
    indent \o <<FileIcon, " ">> \o key
    \o <<" ", "(">> \o NumberString(item.size)
    \o <<" ", "c", "h", "a", "r", "s", ",", " ", ".">> \o item.extension \o <<")", "\n">>
    \o Concat([i \in 1..Len(item.preview) |->
                  indent \o <<" ", " ", " ">> \o item.preview[i] \o <<"\n">>])
    \o (IF Len(item.preview) > 0
        THEN indent \o <<" ", " ", " ", ".", ".", ".", "\n">> ELSE <<>>)

\* lines 204-210: the header line of a file, its preview lines, the "..." line
FileLines(key, item, indent) ==
    indent \o <<FileIcon, " ">> \o key
    \o <<" ", "(">> \o NumberString(item.size)
    \o <<" ", "c", "h", "a", "r", "s", ",", " ", ".">> \o item.extension \o <<")", "\n">>
    \o Concat([i \in 1..Len(item.preview) |->
                  indent \o <<" ", " ", " ">> \o item.preview[i] \o <<"\n">>])
    \o indent \o <<" ", " ", " ", ".", ".", ".", "\n">>

\* formatDirectoryTree(m, indent) for the mapping m held at path
RECURSIVE FormatMapping(_, _, _)
FormatMapping(tree, path, indent) ==
    LET keys == SortedKeys(ChildKeys(tree, path))
        Entry(key) ==
            LET item == tree[path \o <<key>>]
            IN IF item.type = "directory"
               THEN DirectoryLine(key, indent)
                    \o FormatMapping(tree, path \o <<key>>, ChildIndent(indent))
               ELSE FileLines(key, item, indent)
    IN Concat([i \in 1..Len(keys) |-> Entry(keys[i])])

formatDirectoryTree(tree, indent) == FormatMapping(tree, <<>>, indent)

(***************************************************************************)
(* LLMService.prepareFileContext.  Array.prototype.sort is the runtime's:  *)
(* Node's V8 sorts an array of fewer than 64 elements by finding the       *)
(* leading run (reversing it when it descends) and inserting every later   *)
(* element by binary search.                                               *)
(***************************************************************************)
CONTEXT_CHAR_LIMIT_PER_FILE == 8000

\* line 124: the comparator; -1, 1 or 0
CurrentFirst(a, b, currentFile) ==
    IF a.filename = currentFile THEN -1
    ELSE IF b.filename = currentFile THEN 1
    ELSE 0

\* array.reverse()
Reverse(a) == [i \in 1..Len(a) |-> a[Len(a) + 1 - i]]

\* the length of the run that starts the array, its direction given
RECURSIVE RunLength(_, _, _, _)
RunLength(a, n, descending, currentFile) ==
    IF n >= Len(a) THEN Len(a)
    ELSE LET order == CurrentFirst(a[n + 1], a[n], currentFile)
         IN IF (descending /\ order >= 0) \/ (~descending /\ order < 0) THEN n
            ELSE RunLength(a, n + 1, descending, currentFile)

\* the position (0-based) at which pivot goes into the sorted a[left..right-1]
RECURSIVE BinarySearch(_, _, _, _, _)
BinarySearch(a, pivot, left, right, currentFile) ==
    IF left >= right THEN left
    ELSE LET mid == left + ((right - left) \div 2)
         IN IF CurrentFirst(pivot, a[mid + 1], currentFile) < 0
            THEN BinarySearch(a, pivot, left, mid, currentFile)
            ELSE BinarySearch(a, pivot, mid + 1, right, currentFile)

\* the elements from position start (0-based) on are inserted one by one
RECURSIVE BinaryInsertionSort(_, _, _)
BinaryInsertionSort(a, start, currentFile) ==
    IF start >= Len(a) THEN a
    ELSE LET pivot == a[start + 1]
             left == BinarySearch(a, pivot, 0, start, currentFile)
             moved == SubSeq(a, 1, left) \o <<pivot>> \o SubSeq(a, left + 1, start)
                      \o SubSeq(a, start + 2, Len(a))
         IN BinaryInsertionSort(moved, start + 1, currentFile)

\* [...files].sort(comparator)
SortCurrentFirst(files, currentFile) ==
    IF Len(files) < 2 THEN files
    ELSE LET descending == CurrentFirst(files[2], files[1], currentFile) < 0
             run == RunLength(files, 2, descending, currentFile)
             made == IF descending
                     THEN Reverse(SubSeq(files, 1, run)) \o SubSeq(files, run + 1, Len(files))
                     ELSE files
         IN BinaryInsertionSort(made, run, currentFile)

\* lines 123-125: orderedFiles
OrderedFiles(files, currentFile) ==
    IF Truthy(currentFile) THEN SortCurrentFirst(files, currentFile) ELSE files

\* `${v}` for a string or undefined
TemplateString(v) ==
    IF v.kind = "string" THEN v.val
    ELSE <<"u", "n", "d", "e", "f", "i", "n", "e", "d">>

FileHeader == <<"F", "i", "l", "e", ":", " ">>
CurrentFileSuffix ==
    <<" ", "[", "C", "U", "R", "R", "E", "N", "T", " ", "F", "I", "L", "E", "]">>
TruncatedMarker ==
    <<".", ".", ".", "(", "t", "r", "u", "n", "c", "a", "t", "e", "d", ")">>
BlockEnd == <<"-", "-", "-">>

\* variant: content of exactly the limit is marked truncated too
FileBlockMarksAtLimit(file, currentFile) ==
    LET content == OrEmpty(file.content)
        isTruncated == Len(content) >= CONTEXT_CHAR_LIMIT_PER_FILE
        preview == Slice(content, CONTEXT_CHAR_LIMIT_PER_FILE)
        header == FileHeader \o TemplateString(file.filename)
                  \o (IF file.filename = currentFile THEN CurrentFileSuffix ELSE <<>>)
    IN header \o <<"\n">> \o preview
       \o (IF isTruncated THEN <<"\n">> \o TruncatedMarker ELSE <<>>)
       \o <<"\n">> \o BlockEnd

\* lines 127-135: the block of one file
FileBlock(file, currentFile) ==
    LET content == OrEmpty(file.content)
        isTruncated == Len(content) > CONTEXT_CHAR_LIMIT_PER_FILE
        preview == Slice(content, CONTEXT_CHAR_LIMIT_PER_FILE)
        header == FileHeader \o TemplateString(file.filename)
                  \o (IF file.filename = currentFile THEN CurrentFileSuffix ELSE <<>>)
    IN header \o <<"\n">> \o preview
       \o (IF isTruncated THEN <<"\n">> \o TruncatedMarker ELSE <<>>)
       \o <<"\n">> \o BlockEnd

\* array.join(separator)
RECURSIVE Join(_, _)
Join(strings, separator) ==
    IF strings = <<>> THEN <<>>
    ELSE IF Len(strings) = 1 THEN strings[1]
    ELSE strings[1] \o separator \o Join(Tail(strings), separator)

\* variant: entries without a filename are filtered out before the map
prepareFileContextNamedOnly(files, currentFile) ==
    LET ordered == SelectSeq(OrderedFiles(files, currentFile),
                             LAMBDA f : Truthy(f.filename))
    IN Join([i \in 1..Len(ordered) |-> FileBlock(ordered[i], currentFile)],
            <<"\n", "\n">>)

\* lines 121-137
prepareFileContext(files, currentFile) ==
    LET ordered == OrderedFiles(files, currentFile)
    IN Join([i \in 1..Len(ordered) |-> FileBlock(ordered[i], currentFile)],
            <<"\n", "\n">>)

(***************************************************************************)
(* LLMService.generateResponse / generateGeminiResponse and getStatus.     *)
(* An error message is a sequence of text pieces, so that a prefix put in  *)
(* front of a message stays visible.                                       *)
(***************************************************************************)
NotInitializedMessage ==
    <<"Gemini model not initialized. Set GEMINI_API_KEY to enable AI responses.">>

EmptyResponseMessage == <<"Empty response from Gemini">>

GeminiErrorPrefix == <<"Gemini API error: ">>

\* generateResponse up to its first suspension: either it throws at once or
\* generateGeminiResponse builds the prompt (one more tree build) and issues
\* the single geminiModel.generateContent call
generateResponseStart(model, files) ==
    IF ~model
    THEN [state |-> "rejected", error |-> NotInitializedMessage,
          treeBuilds |-> 0, geminiCalls |-> 0]
    ELSE [state |-> "pending", error |-> <<>>,
          treeBuilds |-> 1, geminiCalls |-> 1]

\* variant: the catch block logs the failure and returns an empty answer
generateResponseSettleSwallows(outcome) ==
    [state |-> "resolved", text |-> IF outcome.ok THEN outcome.text ELSE "",
     error |-> <<>>, geminiCalls |-> 0]

\* variant: the catch block of generateResponse issues the call once more
generateResponseSettleRetry(outcome) ==
    IF outcome.ok /\ outcome.text # ""
    THEN [state |-> "resolved", text |-> outcome.text, error |-> <<>>,
          geminiCalls |-> 0]
    ELSE [state |-> "pending", text |-> "", error |-> <<>>, geminiCalls |-> 1]

\* generateResponse from the moment generateContent settles: outcome is
\* [ok |-> TRUE, text |-> t] or [ok |-> FALSE, message |-> m]
generateResponseSettle(outcome) ==
    IF outcome.ok /\ outcome.text # ""
    THEN [state |-> "resolved", text |-> outcome.text, error |-> <<>>,
          geminiCalls |-> 0]
    ELSE [state |-> "rejected", text |-> "",
          error |-> GeminiErrorPrefix \o
                    (IF outcome.ok THEN EmptyResponseMessage ELSE outcome.message),
          geminiCalls |-> 0]

getStatus(apiKey, model) ==
    [geminiAvailable |-> model, geminiApiKey |-> apiKey, service |-> "LLMService"]

(***************************************************************************)
(* The upload handler, app.post('/upload').                                *)
(***************************************************************************)
FilesInvalid(files) == ~Truthy(files) \/ ~IsArray(files)

\* variant: only `!prompt`, without the typeof test
PromptInvalidTruthyOnly(prompt) == ~Truthy(prompt)

PromptInvalid(prompt) == ~Truthy(prompt) \/ ~TypeofString(prompt)

CurrentFileInvalid(currentFile) == Truthy(currentFile) /\ ~TypeofString(currentFile)

NoError == ""

\* variant: the prompt check placed before the files check
ValidationErrorPromptFirst(b) ==
    IF PromptInvalid(b.prompt) THEN "Invalid request: prompt must be a string"
    ELSE IF FilesInvalid(b.files) THEN "Invalid request: files must be an array"
    ELSE IF CurrentFileInvalid(b.currentFile)
         THEN "Invalid request: currentFile must be a string when provided"
    ELSE NoError

\* lines 45-62: the text of the first failing check, NoError when all pass
ValidationError(b) ==
    IF FilesInvalid(b.files) THEN "Invalid request: files must be an array"
    ELSE IF PromptInvalid(b.prompt) THEN "Invalid request: prompt must be a string"
    ELSE IF CurrentFileInvalid(b.currentFile)
         THEN "Invalid request: currentFile must be a string when provided"
    ELSE NoError

\* res.status(400).json({error})
ValidationResponse(e) == [status |-> 400, error |-> e]

\* variant: currentFile passed on as received
CurrentFileOrNullRaw(currentFile) == currentFile

\* currentFile || null
CurrentFileOrNull(currentFile) == IF Truthy(currentFile) THEN currentFile ELSE Null

\* variant: only the files that have a filename are counted
ContentLengthNamedOnly(file) ==
    IF Truthy(file.filename) /\ file.content.kind = "string"
    THEN Len(file.content.val) ELSE 0

\* file.content?.length || 0
ContentLength(file) ==
    IF file.content.kind = "string" THEN Len(file.content.val) ELSE 0

\* files.reduce((sum, file) => sum + (file.content?.length || 0), 0)
RECURSIVE TotalCharacters(_)
TotalCharacters(files) ==
    IF files = <<>> THEN 0
    ELSE ContentLength(Head(files)) + TotalCharacters(Tail(files))

\* variant: the count is that of the files that have a filename
SuccessEnvelopeNamedCount(files, aiResponse, tree, status) ==
    LET n == Cardinality({i \in 1..Len(files) : Truthy(files[i].filename)})
    IN [status |-> 200,
        message |-> <<"Successfully processed ", ToString(n), " files.">>,
        aiResponse |-> aiResponse,
        directoryTree |-> tree,
        llmStatus |-> status,
        metadata |-> [filesProcessed |-> n,
                      totalCharacters |-> TotalCharacters(files)]]

\* lines 86-101: the 200 response (the timestamps are wall-clock and left out)
SuccessEnvelope(files, aiResponse, tree, status) ==
    [status |-> 200,
     message |-> <<"Successfully processed ", ToString(Len(files)), " files.">>,
     aiResponse |-> aiResponse,
     directoryTree |-> tree,
     llmStatus |-> status,
     metadata |-> [filesProcessed |-> Len(files),
                   totalCharacters |-> TotalCharacters(files)]]

\* variant: the error's message is not passed on
ErrorEnvelopeGeneric(message) ==
    [status |-> 500, error |-> "Internal server error",
     message |-> <<"Internal server error">>]

\* lines 103-109: the 500 response
ErrorEnvelope(message) ==
    [status |-> 500, error |-> "Internal server error", message |-> message]

\* variant: the tree is built before the request is validated
ValidationReturnTreeFirst(e) ==
    [pc |-> "done", sent |-> <<ValidationResponse(e)>>, treeBuilds |-> 1,
     genCalls |-> <<>>, genState |-> "none", genError |-> <<>>,
     geminiCalls |-> 0, tree |-> EmptyTree]

\* lines 47-49, 53-55, 59-61: `return res.status(400).json(...)`; the handler
\* returns before it has called anything
ValidationReturn(e) ==
    [pc |-> "done", sent |-> <<ValidationResponse(e)>>, treeBuilds |-> 0,
     genCalls |-> <<>>, genState |-> "none", genError |-> <<>>,
     geminiCalls |-> 0, tree |-> EmptyTree]

\* variant: the `await` is missing, the envelope is sent with the pending promise
AwaitGenerateMissingAwait(b, args, tree, g, status) ==
    [pc |-> "done",
     sent |-> <<SuccessEnvelope(b.files.val, "[object Promise]", tree, status)>>,
     treeBuilds |-> 1 + g.treeBuilds, genCalls |-> <<args>>,
     genState |-> "pending", genError |-> <<>>,
     geminiCalls |-> g.geminiCalls, tree |-> tree]

\* line 83: `await llmService.generateResponse(...)` on a pending promise;
\* the handler is suspended and has sent nothing
AwaitGenerate(b, args, tree, g, status) ==
    [pc |-> "awaitGemini", sent |-> <<>>, treeBuilds |-> 1 + g.treeBuilds,
     genCalls |-> <<args>>, genState |-> "pending", genError |-> <<>>,
     geminiCalls |-> g.geminiCalls, tree |-> tree]

\* lines 73-77: the logging loop reads file.filename of every entry, which
\* raises a TypeError for an entry that is null
LoggingThrows(files) == \E i \in 1..Len(files) : files[i].kind = "null"

\* The handler from its invocation to its first suspension or its return.
HandleUploadSync(b, apiKey, model) ==
    LET e == ValidationError(b)
    IN IF e # NoError THEN ValidationReturn(e)
       ELSE IF LoggingThrows(b.files.val)
       THEN [pc |-> "done", sent |-> <<ErrorEnvelope(TreeTypeError)>>,
             treeBuilds |-> 0, genCalls |-> <<>>, genState |-> "none",
             genError |-> <<>>, geminiCalls |-> 0, tree |-> EmptyTree]
       ELSE LET files == b.files.val
                t == generateDirectoryTree(files)
            IN IF t.threw
               THEN [pc |-> "done", sent |-> <<ErrorEnvelope(TreeTypeError)>>,
                     treeBuilds |-> 1, genCalls |-> <<>>, genState |-> "none",
                     genError |-> <<>>, geminiCalls |-> 0, tree |-> EmptyTree]
               ELSE LET args == [prompt |-> b.prompt, files |-> files,
                                 currentFile |-> CurrentFileOrNull(b.currentFile)]
                        g == generateResponseStart(model, files)
                    IN IF g.state = "rejected"
                       THEN [pc |-> "done", sent |-> <<ErrorEnvelope(g.error)>>,
                             treeBuilds |-> 1 + g.treeBuilds, genCalls |-> <<args>>,
                             genState |-> "rejected", genError |-> g.error,
                             geminiCalls |-> g.geminiCalls, tree |-> t.tree]
                       ELSE AwaitGenerate(b, args, t.tree, g, getStatus(apiKey, model))

\* The handler from the settling of generateContent to its return.
HandleUploadResume(b, tree, status, outcome) ==
    LET g == generateResponseSettle(outcome)
    IN IF g.state = "resolved"
       THEN [pc |-> "done", genState |-> "resolved", genError |-> <<>>,
             geminiCalls |-> g.geminiCalls,
             sent |-> <<SuccessEnvelope(b.files.val, g.text, tree, status)>>]
       ELSE IF g.state = "rejected"
       THEN [pc |-> "done", genState |-> "rejected", genError |-> g.error,
             geminiCalls |-> g.geminiCalls,
             sent |-> <<ErrorEnvelope(g.error)>>]
       ELSE [pc |-> "awaitGemini", genState |-> "pending", genError |-> <<>>,
             geminiCalls |-> g.geminiCalls, sent |-> <<>>]

(***************************************************************************)
(* Inputs: request bodies and the outcomes of the upstream call.           *)
(***************************************************************************)
\* a files entry {filename, content}; a field left out is undefined
SourceFile(filename, content) ==
    [kind |-> "object", filename |-> filename, content |-> content]

FileA == SourceFile(Str(<<"a">>), Str(<<"x", "\n", "y">>))
FileAB == SourceFile(Str(<<"a", "/", "b">>), Undefined)
FileAnon == SourceFile(Undefined, Str(<<"z">>))

\* the entries of a files array: source files and the JSON value null
FilePool == {FileA, FileAB, FileAnon, Null}

FileArrays == UNION {[1..k -> FilePool] : k \in 0..MaxFiles}

NonArrayVals == {Undefined, Null, Str(<<"n", "o">>), Obj}

PromptVals == {Undefined, Num(123), Str(<<>>), Str(<<"h", "i">>)}

CurrentFileVals ==
    {Undefined, Null, Num(0), Bool(FALSE), Bool(TRUE), Obj, Arr(<<>>),
     Str(<<>>), Str(<<"a">>)}

\* every shape of the three fields against every other
ShapeBodies ==
    [files : NonArrayVals \cup {Arr(<<>>), Arr(<<FileA>>)},
     prompt : PromptVals,
     currentFile : CurrentFileVals]

\* every files array with a valid prompt
FileBodies ==
    [files : {Arr(a) : a \in FileArrays},
     prompt : {Str(<<"h", "i">>)},
     currentFile : {Undefined, Str(<<"a">>)}]

Bodies == ShapeBodies \cup FileBodies

\* the bodies of the requests that arrive next to another request: one that
\* fails validation, one that reaches the model, one whose tree build raises
CoreBodies ==
    {[files |-> Undefined, prompt |-> Str(<<"h", "i">>), currentFile |-> Undefined],
     [files |-> Arr(<<FileAB>>), prompt |-> Str(<<"h", "i">>),
      currentFile |-> Str(<<"a">>)],
     [files |-> Arr(<<FileA, FileAB>>), prompt |-> Str(<<"h", "i">>),
      currentFile |-> Undefined]}

\* the files the prompt assembly of generateGeminiResponse is run on: one
\* name twice with different contents, nested and dotted names, a name in
\* upper case, names that are empty, missing or end in "/" or "."
FileA2 ==
    SourceFile(Str(<<"a">>), Str(<<" ", "p", " ", "\n", "\n", "q", "\n", "r", "\t", "\n", "s">>))
FileABdot == SourceFile(Str(<<"a", "/", "B", ".">>), Str(<<"y", "\n", "x">>))
FileZde == SourceFile(Str(<<"Z", ".", "d", ".", "e">>), Undefined)
FileNoName == SourceFile(Str(<<>>), Str(<<"w">>))
FileADSlash == SourceFile(Str(<<"a", "/", "d", "/">>), Str(<<"\t", "\n">>))

PromptFilePool ==
    {FileA, FileA2, FileAB, FileABdot, FileAnon, FileZde, FileNoName, FileADSlash}

\* a file whose content has n characters
LongFile(n) ==
    SourceFile(Str(<<"a">>), Str([i \in 1..n |-> IF i % 2 = 1 THEN "x" ELSE "y"]))

\* contents just under, at and just over the per-file limit
LongFiles ==
    {LongFile(n) : n \in {CONTEXT_CHAR_LIMIT_PER_FILE - 1,
                          CONTEXT_CHAR_LIMIT_PER_FILE,
                          CONTEXT_CHAR_LIMIT_PER_FILE + 1}}

PromptFileArrays ==
    UNION {[1..k -> PromptFilePool] : k \in 0..MaxPromptFiles}
    \cup {<<f>> : f \in LongFiles}

\* currentFile as generateGeminiResponse receives it: null or a non-empty string
PromptCurrentFiles == {Null, Str(<<"a">>)}

\* what response.text() returns when generateContent resolves
GeminiTexts == {"", "Mock AI response"}

\* the message of the error generateContent rejects with
GeminiErrors == {<<"boom">>}

\* the outcomes of the generateContent call: it resolves with a text or
\* rejects with an error
ResolvedOutcomes ==
    {[ok |-> TRUE, text |-> text, message |-> <<>>] : text \in GeminiTexts}
RejectedOutcomes ==
    {[ok |-> FALSE, text |-> "", message |-> m] : m \in GeminiErrors}

(***************************************************************************)
(* State.                                                                  *)
(***************************************************************************)
VARIABLES
    geminiApiKey,   \* llmService.geminiApiKey is set (module-level singleton)
    geminiModel,    \* llmService.geminiModel is set
    req,            \* per request: the handler's position, locals and effects
    assembly,       \* the prompt assembly of generateGeminiResponse run on its own
    provider,       \* ChatWebviewProvider: _panel, the state store, pending timers
    panels,         \* the editor's webview panels and what was posted to each
    handlers,       \* the invocations of _handleUserMessage
    webview,        \* webviewClient.js in the panel: its messages and timers
    client          \* one call of callBackendAPI

backendVars == <<geminiApiKey, geminiModel, req, assembly>>
extensionVars == <<provider, panels, handlers, webview>>
vars == <<geminiApiKey, geminiModel, req, assembly, provider, panels, handlers,
          webview, client>>

\* the prompt assembly is not being run
NoAssembly ==
    [pc |-> "none", files |-> <<>>, currentFile |-> Null, fileContext |-> <<>>,
     directoryTree |-> EmptyTree, formattedTree |-> <<>>,
     genState |-> "none", genError |-> <<>>, genText |-> "", geminiCalls |-> 0,
     upstream |-> [ok |-> FALSE, text |-> "", message |-> <<>>]]

\* no outcome of generateContent has reached the handler yet
NoOutcome == [ok |-> FALSE, text |-> "", message |-> <<>>]

NoBody == [files |-> Undefined, prompt |-> Undefined, currentFile |-> Undefined]

Idle ==
    [pc |-> "idle", body |-> NoBody, sent |-> <<>>, treeBuilds |-> 0,
     genCalls |-> <<>>, genState |-> "none", genError |-> <<>>,
     geminiCalls |-> 0, tree |-> EmptyTree,
     upstream |-> NoOutcome, overlapped |-> FALSE]

\* the extension host is not running: no provider, no panel, no webview
\* `found` is what the state store held when the referenced panel was
\* opened, `saved` whether a SAVE_CHAT_HISTORY has arrived since
NoProvider == [panel |-> 0, history |-> <<>>, found |-> <<>>, saved |-> FALSE]

\* a panel the editor has not opened yet.  `loadPending` is the timer of
\* _loadChatHistoryWithDelay, `posted` the postMessage calls on its webview.
NoPanel ==
    [state |-> "unused", origin |-> "none", eventHandlers |-> FALSE, posted |-> <<>>,
     loadPending |-> FALSE]

NoHandler ==
    [pc |-> "idle", text |-> <<>>, entered |-> FALSE, posts |-> <<>>,
     gatherCalls |-> 0, backendCalls |-> 0, finishedWith |-> 0]

\* no webview script is running.  `messages` are the .message elements of
\* the container, `delivered` counts the posted messages the script has
\* handled, `outbox` holds its messages on their way to the extension,
\* `typed` counts the user's messages and `cleared` tells that clearChat
\* has removed messages and none was added since.
NoWebview ==
    [messages |-> <<>>, saveTimers |-> 0, delivered |-> 0, outbox |-> <<>>,
     typed |-> 0, cleared |-> FALSE]

ExtensionIdle ==
    /\ provider = NoProvider
    /\ panels = [p \in Panels |-> NoPanel]
    /\ handlers = [h \in Handlers |-> NoHandler]
    /\ webview = NoWebview

\* callBackendAPI is not being called
NoPromise == [state |-> "pending", value |-> Undefined, message |-> <<>>]

NoClient ==
    [pc |-> "none", backendUrl |-> "", currentFile |-> Undefined, payload |-> <<>>,
     promise |-> NoPromise, settlements |-> <<>>, ended |-> FALSE, errored |-> FALSE,
     statusCode |-> Undefined, rawData |-> ""]

\* the backend is not running
BackendIdle ==
    /\ geminiApiKey = FALSE
    /\ geminiModel = FALSE
    /\ req = [r \in Reqs |-> Idle]
    /\ assembly = NoAssembly

\* new LLMService(): the model exists iff a key is set and initialisation
\* did not throw; a failed initialisation clears the key
Init ==
    /\ \E keyPresent \in BOOLEAN, initOk \in BOOLEAN :
          /\ geminiApiKey = (keyPresent /\ initOk)
          /\ geminiModel = (keyPresent /\ initOk)
    /\ req = [r \in Reqs |-> Idle]
    /\ assembly = NoAssembly
    /\ ExtensionIdle
    /\ client = NoClient

\* POST /upload arrives with body b: the handler runs to its first await
Upload(r, b) ==
    /\ req[r].pc = "idle"
    /\ LET h == HandleUploadSync(b, geminiApiKey, geminiModel)
       IN req' = [req EXCEPT ![r] =
                    [pc |-> h.pc, body |-> b, sent |-> h.sent,
                     treeBuilds |-> h.treeBuilds, genCalls |-> h.genCalls,
                     genState |-> h.genState, genError |-> h.genError,
                     geminiCalls |-> h.geminiCalls, tree |-> h.tree,
                     upstream |-> NoOutcome, overlapped |-> FALSE]]
    /\ UNCHANGED <<geminiApiKey, geminiModel, assembly, extensionVars, client>>

\* some request other than r is suspended at its call of generateContent
OthersInFlight(r) == \E q \in Reqs \ {r} : req[q].pc = "awaitGemini"

\* Resume with `files` and `directoryTree` held in module-level variables that
\* every request overwrites: the handler resumes with what another request
\* in flight left there
ResumeSharedLocals(r, outcome) ==
    /\ req[r].pc = "awaitGemini"
    /\ LET q == IF OthersInFlight(r)
                THEN CHOOSE o \in Reqs \ {r} : req[o].pc = "awaitGemini"
                ELSE r
           h == HandleUploadResume(req[q].body, req[q].tree,
                                   getStatus(geminiApiKey, geminiModel), outcome)
       IN req' = [req EXCEPT ![r] =
                    [@ EXCEPT !.pc = h.pc,
                              !.sent = @ \o h.sent,
                              !.genState = h.genState,
                              !.genError = h.genError,
                              !.geminiCalls = @ + h.geminiCalls,
                              !.upstream = outcome,
                              !.overlapped = OthersInFlight(r)]]
    /\ UNCHANGED <<geminiApiKey, geminiModel, assembly, extensionVars, client>>

\* the handler resumes with the outcome of generateContent; `files` and
\* `directoryTree` are locals of this invocation of the handler
Resume(r, outcome) ==
    /\ req[r].pc = "awaitGemini"
    /\ LET h == HandleUploadResume(req[r].body, req[r].tree,
                                   getStatus(geminiApiKey, geminiModel), outcome)
       IN req' = [req EXCEPT ![r] =
                    [@ EXCEPT !.pc = h.pc,
                              !.sent = @ \o h.sent,
                              !.genState = h.genState,
                              !.genError = h.genError,
                              !.geminiCalls = @ + h.geminiCalls,
                              !.upstream = outcome,
                              !.overlapped = OthersInFlight(r)]]
    /\ UNCHANGED <<geminiApiKey, geminiModel, assembly, extensionVars, client>>

\* generateContent resolves and response.text() returns outcome.text
GeminiResolves(r, outcome) == Resume(r, outcome)

\* generateContent (or reading its response) fails with outcome.message
GeminiRejects(r, outcome) == Resume(r, outcome)

\* every other request that has arrived carries one of the core bodies
OthersCarryCore(r) ==
    \A q \in Reqs \ {r} : req[q].pc # "idle" => req[q].body \in CoreBodies

\* Requests arrive and upstream calls settle in any order.  To keep the
\* interleavings enumerable, at most one of the requests present carries a
\* body outside CoreBodies.
Next ==
    \E r \in Reqs :
        \/ OthersCarryCore(r) /\ \E b \in Bodies : Upload(r, b)
        \/ \E b \in CoreBodies : Upload(r, b)
        \/ \E outcome \in ResolvedOutcomes : GeminiResolves(r, outcome)
        \/ \E outcome \in RejectedOutcomes : GeminiRejects(r, outcome)

Spec == Init /\ [][Next]_vars

(***************************************************************************)
(* The prompt assembly of generateGeminiResponse (lines 64-67) run on its  *)
(* own, on a service whose model is initialised: prepareFileContext, then  *)
(* generateDirectoryTree, then formatDirectoryTree.                        *)
(***************************************************************************)
AssemblyInit ==
    /\ geminiApiKey = TRUE
    /\ geminiModel = TRUE
    /\ req = [r \in Reqs |-> Idle]
    /\ \E files \in PromptFileArrays, currentFile \in PromptCurrentFiles :
          assembly = [NoAssembly EXCEPT !.pc = "start", !.files = files,
                                        !.currentFile = currentFile]
    /\ ExtensionIdle
    /\ client = NoClient

\* line 65
PrepareContext ==
    /\ assembly.pc = "start"
    /\ geminiModel
    /\ assembly' = [assembly EXCEPT
                       !.pc = "context",
                       !.fileContext = prepareFileContext(assembly.files,
                                                          assembly.currentFile)]
    /\ UNCHANGED <<geminiApiKey, geminiModel, req, extensionVars, client>>

\* line 66; a TypeError leaves generateGeminiResponse
BuildTree ==
    /\ assembly.pc = "context"
    /\ LET t == generateDirectoryTree(assembly.files)
       IN assembly' = IF t.threw
                      THEN [assembly EXCEPT !.pc = "threw"]
                      ELSE [assembly EXCEPT !.pc = "tree", !.directoryTree = t.tree]
    /\ UNCHANGED <<geminiApiKey, geminiModel, req, extensionVars, client>>

\* line 67
FormatTree ==
    /\ assembly.pc = "tree"
    /\ assembly' = [assembly EXCEPT
                       !.pc = "formatted",
                       !.formattedTree = formatDirectoryTree(assembly.directoryTree, <<>>)]
    /\ UNCHANGED <<geminiApiKey, geminiModel, req, extensionVars, client>>

AssemblyNext == PrepareContext \/ BuildTree \/ FormatTree

AssemblySpec == AssemblyInit /\ [][AssemblyNext]_vars

(***************************************************************************)
(* generateResponse called on its own (lines 39-51, 60-113), with and      *)
(* without an initialised model: the guard, the prompt assembly, the one   *)
(* generateContent call and the two catch blocks.                          *)
(***************************************************************************)
GenerateFileArrays == UNION {[1..k -> PromptFilePool] : k \in 0..MaxFiles}

GenerateInit ==
    /\ \E initialised \in BOOLEAN :
          geminiApiKey = initialised /\ geminiModel = initialised
    /\ req = [r \in Reqs |-> Idle]
    /\ \E files \in GenerateFileArrays, currentFile \in PromptCurrentFiles :
          assembly = [NoAssembly EXCEPT !.pc = "start", !.files = files,
                                        !.currentFile = currentFile]
    /\ ExtensionIdle
    /\ client = NoClient

\* lines 40-42: the guard throws before the try block
RejectUninitialised ==
    /\ assembly.pc = "start"
    /\ ~geminiModel
    /\ LET g == generateResponseStart(geminiModel, assembly.files)
       IN assembly' = [assembly EXCEPT !.pc = "settled", !.genState = g.state,
                                       !.genError = g.error,
                                       !.geminiCalls = g.geminiCalls]
    /\ UNCHANGED <<geminiApiKey, geminiModel, req, extensionVars, client>>

\* lines 45-49: an error raised by the prompt assembly reaches the catch
\* block of generateResponse, which wraps its message
CatchAssemblyError ==
    /\ assembly.pc = "threw"
    /\ assembly' = [assembly EXCEPT !.pc = "settled", !.genState = "rejected",
                                    !.genError = GeminiErrorPrefix \o TreeTypeError]
    /\ UNCHANGED <<geminiApiKey, geminiModel, req, extensionVars, client>>

\* lines 93-97: the generateContent call is issued and awaited
IssueCall ==
    /\ assembly.pc = "formatted"
    /\ LET g == generateResponseStart(geminiModel, assembly.files)
       IN assembly' = [assembly EXCEPT !.pc = "awaitGemini", !.genState = g.state,
                                       !.geminiCalls = g.geminiCalls]
    /\ UNCHANGED <<geminiApiKey, geminiModel, req, extensionVars, client>>

\* lines 99-112 and 45-49: generateContent settles and generateResponse with it
Settle(outcome) ==
    /\ assembly.pc = "awaitGemini"
    /\ LET g == generateResponseSettle(outcome)
       IN assembly' = [assembly EXCEPT !.pc = "settled", !.genState = g.state,
                                       !.genError = g.error, !.genText = g.text,
                                       !.geminiCalls = @ + g.geminiCalls,
                                       !.upstream = outcome]
    /\ UNCHANGED <<geminiApiKey, geminiModel, req, extensionVars, client>>

GenerateNext ==
    \/ RejectUninitialised
    \/ PrepareContext
    \/ BuildTree
    \/ FormatTree
    \/ CatchAssemblyError
    \/ IssueCall
    \/ \E outcome \in ResolvedOutcomes : Settle(outcome)
    \/ \E outcome \in RejectedOutcomes : Settle(outcome)

GenerateSpec == GenerateInit /\ [][GenerateNext]_vars

(***************************************************************************)
(* Vocabulary of the properties.                                           *)
(***************************************************************************)
Started(r) == req[r].pc # "idle"

FilesMsg == "Invalid request: files must be an array"
PromptMsg == "Invalid request: prompt must be a string"
CurrentFileMsg == "Invalid request: currentFile must be a string when provided"

\* request r was answered with exactly the 400 response carrying text
Rejected400(r, text) ==
    /\ req[r].pc = "done"
    /\ req[r].sent = <<[status |-> 400, error |-> text]>>

NonEmptyString(v) == v.kind = "string" /\ v.val # <<>>

AbsentOrString(v) == v.kind \in {"undefined", "string"}

\* some entry of the files array is null
NullEntry(files) == \E i \in 1..Len(files) : files[i].kind = "null"

\* the i-th entry is an object that lacks the field
Lacks(files, i, field) ==
    files[i].kind = "object" /\ files[i][field].kind = "undefined"

\* the path segments of the i-th file, <<>> for a file without filename
Segments(files, i) ==
    IF files[i].kind = "object" /\ NonEmptyString(files[i].filename)
    THEN SplitOn(files[i].filename.val, "/") ELSE <<>>

\* a later file's path runs through the full path of an earlier file
PathConflict(files) ==
    \E i, j \in 1..Len(files) :
        /\ i < j
        /\ Segments(files, i) # <<>>
        /\ Below(Segments(files, j), Segments(files, i))

\* the arguments the model client is expected to be called with
ExpectedArgs(b) ==
    [prompt |-> b.prompt, files |-> b.files.val,
     currentFile |-> IF NonEmptyString(b.currentFile) THEN b.currentFile ELSE Null]

\* sum of the content lengths of the files from the i-th on, 0 for no content
RECURSIVE CharSum(_, _)
CharSum(files, i) ==
    IF i > Len(files) THEN 0
    ELSE (IF files[i].kind = "object" /\ files[i].content.kind = "string"
          THEN Len(files[i].content.val) ELSE 0)
         + CharSum(files, i + 1)

(***************************************************************************)
(* C1: a request that fails one of the three validation checks is answered *)
(* with that validation error, and for it neither generateDirectoryTree    *)
(* nor generateResponse (nor the upstream call) is invoked.                *)
(***************************************************************************)
C1_ValidationShortCircuits ==
    \A r \in Reqs :
        (Started(r) /\ ValidationError(req[r].body) # NoError) =>
            /\ Rejected400(r, ValidationError(req[r].body))
            /\ req[r].treeBuilds = 0
            /\ req[r].genCalls = <<>>
            /\ req[r].geminiCalls = 0

C1_Witness ==
    \E r \in Reqs :
        /\ req[r].body.files.kind = "array"
        /\ req[r].body.prompt.kind = "number"
        /\ Rejected400(r, PromptMsg)
        /\ req[r].treeBuilds = 0

(***************************************************************************)
(* C2: a request whose files field is missing or is not an array is        *)
(* answered 400 "files must be an array", whatever prompt and currentFile  *)
(* are.                                                                    *)
(***************************************************************************)
C2_NonArrayFilesRejected ==
    \A r \in Reqs :
        (Started(r) /\ req[r].body.files.kind # "array") => Rejected400(r, FilesMsg)

C2_Witness ==
    \E r \in Reqs :
        /\ req[r].body.files.kind = "object"
        /\ req[r].body.prompt.kind = "undefined"
        /\ req[r].body.currentFile.kind = "boolean"
        /\ Rejected400(r, FilesMsg)

(***************************************************************************)
(* C3: a request with an array files field whose prompt is missing or not  *)
(* a string is answered 400 "prompt must be a string".                     *)
(***************************************************************************)
C3_NonStringPromptRejected ==
    \A r \in Reqs :
        (/\ Started(r)
         /\ req[r].body.files.kind = "array"
         /\ req[r].body.prompt.kind # "string") => Rejected400(r, PromptMsg)

C3_Witness ==
    \E r \in Reqs :
        /\ req[r].body.files.kind = "array"
        /\ req[r].body.prompt.kind = "number"
        /\ req[r].body.currentFile.kind = "string"
        /\ Rejected400(r, PromptMsg)

(***************************************************************************)
(* C4: with valid files and prompt, a currentFile that is present and is   *)
(* not a string (any non-string value) is answered 400 "currentFile must   *)
(* be a string when provided".                                             *)
(***************************************************************************)
C4_NonStringCurrentFileRejected ==
    \A r \in Reqs :
        (/\ Started(r)
         /\ req[r].body.files.kind = "array"
         /\ NonEmptyString(req[r].body.prompt)
         /\ req[r].body.currentFile.kind \in {"number", "boolean", "object", "array"})
            => Rejected400(r, CurrentFileMsg)

C6_ProcessedCountIsArrayLength ==
    \A r \in Reqs :
        req[r].genState = "resolved" =>
            LET files == req[r].body.files.val
            IN /\ Len(req[r].sent) = 1
               /\ req[r].sent[1].status = 200
               /\ req[r].sent[1].message =
                     <<"Successfully processed ", ToString(Len(files)), " files.">>
               /\ req[r].sent[1].metadata.filesProcessed = Len(files)
               /\ files = <<>> =>
                     /\ req[r].sent[1].message =
                           <<"Successfully processed ", "0", " files.">>
                     /\ req[r].sent[1].metadata.filesProcessed = 0

C6_Witness ==
    \E r \in Reqs :
        LET files == req[r].body.files.val
        IN /\ req[r].genState = "resolved"
           /\ Len(files) = 2
           /\ \E i \in 1..2 : Lacks(files, i, "filename")
           /\ \E i \in 1..2 : Lacks(files, i, "content")
           /\ req[r].sent[1].metadata.filesProcessed = 2

(***************************************************************************)
(* C7: for a successful upload metadata.totalCharacters is the sum of the  *)
(* content lengths of all entries of the files array, an entry without     *)
(* content counting 0.                                                     *)
(***************************************************************************)
C7_TotalCharactersIsContentSum ==
    \A r \in Reqs :
        req[r].genState = "resolved" =>
            /\ Len(req[r].sent) = 1
            /\ req[r].sent[1].metadata.totalCharacters =
                  CharSum(req[r].body.files.val, 1)

C7_Witness ==
    \E r \in Reqs :
        LET files == req[r].body.files.val
        IN /\ req[r].genState = "resolved"
           /\ Len(files) = 2
           /\ \E i \in 1..2 : Lacks(files, i, "content")
           /\ \E i \in 1..2 : Lacks(files, i, "filename")
           /\ req[r].sent[1].metadata.totalCharacters = 1

(***************************************************************************)
(* C8: when generateResponse fails with message m during a valid request,  *)
(* the handler answers 500 {error: "Internal server error", message: m}    *)
(* and sends no success envelope.                                          *)
(***************************************************************************)
C8_ModelFailureGives500 ==
    \A r \in Reqs :
        req[r].genState = "rejected" =>
            /\ req[r].pc = "done"
            /\ req[r].sent = <<[status |-> 500, error |-> "Internal server error",
                                message |-> req[r].genError]>>
            /\ req[r].genError # <<>>

C8_Witness ==
    \E r \in Reqs :
        /\ req[r].genState = "rejected"
        /\ req[r].genError = <<"Gemini API error: ", "boom">>
        /\ req[r].sent[1].message = <<"Gemini API error: ", "boom">>

(***************************************************************************)
(* Responses in general: never more than one per request, exactly one once *)
(* the handler has returned, and of status 400, 200 or 500.                *)
(***************************************************************************)
OneResponse(r) ==
    /\ Len(req[r].sent) <= 1
    /\ req[r].pc = "done" => Len(req[r].sent) = 1
    /\ \A i \in 1..Len(req[r].sent) : req[r].sent[i].status \in {400, 200, 500}

C10_NoRetry ==
    \A r \in Reqs :
        /\ req[r].geminiCalls <= 1
        /\ req[r].genState = "rejected" => req[r].pc = "done"
        /\ req[r].pc = "awaitGemini" => req[r].geminiCalls = 1

C10_Witness ==
    \E r \in Reqs :
        /\ req[r].genState = "rejected"
        /\ req[r].geminiCalls = 1
        /\ req[r].pc = "done"

\* the response a request is due from its own body and the outcome of its
\* own upstream call alone
OwnResponse(b, outcome) ==
    LET files == b.files.val
    IN IF outcome.ok /\ outcome.text # ""
       THEN [status |-> 200,
             message |-> <<"Successfully processed ", ToString(Len(files)), " files.">>,
             aiResponse |-> outcome.text,
             directoryTree |-> generateDirectoryTree(files).tree,
             filesProcessed |-> Len(files),
             totalCharacters |-> CharSum(files, 1)]
       ELSE [status |-> 500]

\* the fields of a response that the request's own data determine
Observed(resp) ==
    IF resp.status = 200
    THEN [status |-> 200, message |-> resp.message, aiResponse |-> resp.aiResponse,
          directoryTree |-> resp.directoryTree,
          filesProcessed |-> resp.metadata.filesProcessed,
          totalCharacters |-> resp.metadata.totalCharacters]
    ELSE [status |-> resp.status]

(***************************************************************************)
(* C11: whatever the interleaving of the requests in flight, the response   *)
(* a request gets after its model call (message, directoryTree, the two     *)
(* metadata counts, aiResponse) is the one its own files and the outcome of *)
(* its own model call determine, and while it is suspended the tree it      *)
(* holds is the tree of its own files.                                      *)
(***************************************************************************)
C11_ResponsesIndependent ==
    \A r \in Reqs :
        /\ req[r].pc = "awaitGemini" =>
               req[r].tree = generateDirectoryTree(req[r].body.files.val).tree
        /\ (req[r].pc = "done" /\ req[r].genState \in {"resolved", "rejected"}) =>
               /\ Len(req[r].sent) = 1
               /\ Observed(req[r].sent[1]) = OwnResponse(req[r].body, req[r].upstream)

\* a request was answered 200 while another one, with other files and another
\* tree, was suspended at its model call, and that one was answered 200 later
C11_Witness ==
    \E r, q \in Reqs :
        /\ r # q
        /\ req[r].pc = "done" /\ req[r].genState = "resolved" /\ req[r].overlapped
        /\ req[q].pc = "done" /\ req[q].genState = "resolved"
        /\ req[r].body.files # req[q].body.files
        /\ req[r].sent[1].directoryTree # req[q].sent[1].directoryTree

(***************************************************************************)
(* Vocabulary of the properties of the prompt assembly.                    *)
(***************************************************************************)
\* prepareFileContext has returned
ContextDone == assembly.pc \in {"context", "tree", "threw", "formatted"}

\* generateDirectoryTree has returned a tree
TreeDone == assembly.pc \in {"tree", "formatted"}

\* formatDirectoryTree has returned
FormatDone == assembly.pc = "formatted"

\* s[a..b], or a string no output contains when the range leaves s
Take(s, a, b) ==
    IF a >= 1 /\ b <= Len(s) /\ a <= b + 1 THEN SubSeq(s, a, b) ELSE <<"out of range">>

Min(a, b) == IF a < b THEN a ELSE b

\* the content of an entry, empty when it has none
ContentOf(file) == IF file.content.kind = "string" THEN file.content.val ELSE <<>>

\* the texts the blocks are expected to carry
ExpectedHeaderStart == <<"F", "i", "l", "e", ":", " ">>
ExpectedSuffix ==
    <<" ", "[", "C", "U", "R", "R", "E", "N", "T", " ", "F", "I", "L", "E", "]">>
ExpectedMarkerLine ==
    <<"\n", ".", ".", ".", "(", "t", "r", "u", "n", "c", "a", "t", "e", "d", ")">>
ExpectedBlockEnd == <<"\n", "-", "-", "-">>
ExpectedSeparator == <<"\n", "\n">>

\* the header expected for an entry: its filename, marked when it is the current file
ExpectedHeader(file, currentFile) ==
    ExpectedHeaderStart
    \o (IF file.filename.kind = "string" THEN file.filename.val
        ELSE <<"u", "n", "d", "e", "f", "i", "n", "e", "d">>)
    \o (IF file.filename = currentFile THEN ExpectedSuffix ELSE <<>>)

\* the length expected of the block of an entry
ExpectedBlockLen(file, currentFile) ==
    Len(ExpectedHeader(file, currentFile)) + 1
    + Min(Len(ContentOf(file)), CONTEXT_CHAR_LIMIT_PER_FILE)
    + (IF Len(ContentOf(file)) > CONTEXT_CHAR_LIMIT_PER_FILE
       THEN Len(ExpectedMarkerLine) ELSE 0)
    + Len(ExpectedBlockEnd)

\* the position in the output at which the i-th block is expected to start
RECURSIVE ExpectedBlockStart(_, _, _)
ExpectedBlockStart(ordered, i, currentFile) ==
    IF i = 1 THEN 1
    ELSE ExpectedBlockStart(ordered, i - 1, currentFile)
         + ExpectedBlockLen(ordered[i - 1], currentFile) + Len(ExpectedSeparator)

(***************************************************************************)
(* C12: in the block of every file, the content included is the first      *)
(* min(L, 8000) characters of the file's content of length L, and the line *)
(* "...(truncated)" follows it exactly when L > 8000 (not at L = 8000).    *)
(***************************************************************************)
C12_TruncatesAtLimit ==
    ContextDone =>
        LET cf == assembly.currentFile
            ordered == OrderedFiles(assembly.files, cf)
            out == assembly.fileContext
        IN \A i \in 1..Len(ordered) :
              LET content == ContentOf(ordered[i])
                  kept == Min(Len(content), CONTEXT_CHAR_LIMIT_PER_FILE)
                  at == ExpectedBlockStart(ordered, i, cf)
                        + Len(ExpectedHeader(ordered[i], cf)) + 1
              IN /\ Take(out, at, at + kept - 1) = SubSeq(content, 1, kept)
                 /\ (Len(content) > CONTEXT_CHAR_LIMIT_PER_FILE)
                    <=> (Take(out, at + kept, at + kept + Len(ExpectedMarkerLine) - 1)
                         = ExpectedMarkerLine)

\* a content one character over the limit was cut to the limit and marked
C12_Witness ==
    /\ ContextDone
    /\ Len(assembly.files) = 1
    /\ Len(ContentOf(assembly.files[1])) = CONTEXT_CHAR_LIMIT_PER_FILE + 1
    /\ Len(assembly.fileContext)
         = Len(ExpectedHeader(assembly.files[1], assembly.currentFile)) + 1
           + CONTEXT_CHAR_LIMIT_PER_FILE + Len(ExpectedMarkerLine) + Len(ExpectedBlockEnd)

\* the entries whose filename is currentFile, then the others, each group in
\* its input order
StablePartition(files, currentFile) ==
    SelectSeq(files, LAMBDA f : f.filename = currentFile)
    \o SelectSeq(files, LAMBDA f : f.filename # currentFile)

\* the blocks expected for the entries in the given order
RECURSIVE ExpectedBlocks(_, _)
ExpectedBlocks(ordered, currentFile) ==
    IF ordered = <<>> THEN <<>>
    ELSE FileBlock(Head(ordered), currentFile)
         \o (IF Len(ordered) > 1 THEN ExpectedSeparator ELSE <<>>)
         \o ExpectedBlocks(Tail(ordered), currentFile)

(***************************************************************************)
(* C13: with currentFile set, the blocks come in the order of the stable   *)
(* partition of the input: the entries whose filename equals currentFile   *)
(* first, then all others, each group in its input order; with currentFile *)
(* null, or matching no file, the blocks come in input order.              *)
(***************************************************************************)
C13_CurrentFileFirstStable ==
    ContextDone =>
        assembly.fileContext
          = ExpectedBlocks(IF assembly.currentFile = Null THEN assembly.files
                           ELSE StablePartition(assembly.files, assembly.currentFile),
                           assembly.currentFile)

\* the i-th entry has a non-empty filename
Named(files, i) == Segments(files, i) # <<>>

\* the file nodes of the tree that was built
FileNodePaths == {p \in DOMAIN assembly.directoryTree : assembly.directoryTree[p].type = "file"}

AfterLastDot(segment) ==
    LET dots == {i \in 1..Len(segment) : segment[i] = "."}
    IN IF dots = {} THEN segment
       ELSE SubSeq(segment, (CHOOSE i \in dots : \A j \in dots : j <= i) + 1, Len(segment))

(***************************************************************************)
(* C15 as stated: the extension of every FileNode is what follows the last *)
(* '.' of its final path segment, or the whole segment when it has no '.', *)
(* also for a segment that ends in '.'.                                    *)
(***************************************************************************)
C15_ExtensionAfterLastDot ==
    TreeDone =>
        \A p \in FileNodePaths :
            assembly.directoryTree[p].extension = AfterLastDot(p[Len(p)])

(***************************************************************************)
(* C15: the extension of every FileNode is what follows the last '.' of    *)
(* its final path segment, or the whole segment when it has no '.'; when   *)
(* that is the empty string (the segment ends in '.', or is empty) the     *)
(* extension is "unknown".                                                 *)
(***************************************************************************)
C15_ExtensionOrUnknown ==
    TreeDone =>
        \A p \in FileNodePaths :
            assembly.directoryTree[p].extension
              = IF AfterLastDot(p[Len(p)]) = <<>>
                THEN <<"u", "n", "k", "n", "o", "w", "n">>
                ELSE AfterLastDot(p[Len(p)])

\* one tree holds a dotted name, a name without '.', and a name ending in '.'
C15_Witness ==
    /\ TreeDone
    /\ \E p, q, o \in FileNodePaths :
          /\ p[Len(p)] = <<"Z", ".", "d", ".", "e">>
          /\ assembly.directoryTree[p].extension = <<"e">>
          /\ q[Len(q)] = <<"B", ".">>
          /\ assembly.directoryTree[q].extension = <<"u", "n", "k", "n", "o", "w", "n">>
          /\ o[Len(o)] = <<"b">>
          /\ assembly.directoryTree[o].extension = <<"b">>

\* the entry that wrote the FileNode at path p: the last one with that path
LastWriter(files, p) ==
    CHOOSE i \in 1..Len(files) :
        /\ Segments(files, i) = p
        /\ \A j \in (i + 1)..Len(files) : Segments(files, j) # p

\* the lines of a content, each trimmed, that are not empty, in order
TrimmedLines(content) ==
    LET lines == SplitOn(content, "\n")
        trimmed == [k \in 1..Len(lines) |-> Trim(lines[k])]
        kept == {k \in 1..Len(lines) : trimmed[k] # <<>>}
        Nth(j) == CHOOSE k \in kept : Cardinality({m \in kept : m < k}) = j - 1
    IN [j \in 1..Cardinality(kept) |-> trimmed[Nth(j)]]

(***************************************************************************)
(* C16: the preview of every FileNode is the first three lines of the      *)
(* content that are non-empty after trimming, trimmed, in their order; it  *)
(* has fewer than three entries exactly when the content has fewer such    *)
(* lines; size is the length of the content, 0 when there is none.         *)
(***************************************************************************)
C16_PreviewAndSize ==
    TreeDone =>
        \A p \in FileNodePaths :
            LET file == assembly.files[LastWriter(assembly.files, p)]
                node == assembly.directoryTree[p]
                all == TrimmedLines(ContentOf(file))
            IN /\ node.preview = SubSeq(all, 1, Min(Len(all), PreviewLines))
               /\ (Len(node.preview) < PreviewLines) <=> (Len(all) < PreviewLines)
               /\ node.size = Len(ContentOf(file))

\* a content of five lines, one of them blank and two padded, gave a preview
\* of its first three non-blank lines, and a file without content an empty one
C16_Witness ==
    /\ TreeDone
    /\ \E p, q \in FileNodePaths :
          /\ assembly.directoryTree[p].preview = <<<<"p">>, <<"q">>, <<"r">>>>
          /\ assembly.directoryTree[p].size = 11
          /\ assembly.directoryTree[q].preview = <<>>
          /\ assembly.directoryTree[q].size = 0

(***************************************************************************)
(* Reading the formatted tree back: its lines, and the node each header    *)
(* line belongs to.                                                        *)
(***************************************************************************)
Spaces(n) == [i \in 1..n |-> " "]

Max(S) == CHOOSE x \in S : \A y \in S : y <= x

\* the pieces of the output between newlines; the last one follows the last newline
FormattedPieces == SplitOn(assembly.formattedTree, "\n")

\* the lines of the output that a newline ends
FormattedLines == SubSeq(FormattedPieces, 1, Len(FormattedPieces) - 1)

\* the number of spaces a line starts with
LeadingSpaces(line) ==
    CHOOSE n \in 0..Len(line) :
        /\ n = Len(line) \/ line[n + 1] # " "
        /\ \A j \in 1..n : line[j] = " "

\* the line opens an entry: an icon follows its indent
IsHeaderLine(line) ==
    LET n == LeadingSpaces(line)
    IN n < Len(line) /\ line[n + 1] \in {FolderIcon, FileIcon}

\* the header line expected for the node at path p, two spaces per level
ExpectedHeaderLine(tree, p) ==
    LET key == p[Len(p)]
        indent == Spaces(2 * (Len(p) - 1))
    IN IF tree[p].type = "directory"
       THEN indent \o <<FolderIcon, " ">> \o key \o <<"/">>
       ELSE indent \o <<FileIcon, " ">> \o key \o <<" ", "(">>
            \o NumberString(tree[p].size)
            \o <<" ", "c", "h", "a", "r", "s", ",", " ", ".">>
            \o tree[p].extension \o <<")">>

NoPath == <<<<"no such node">>>>

\* the node whose header line is lines[i]: a child of the directory whose
\* header is the nearest line above with two spaces less, a top-level node
\* when the line has no indent
RECURSIVE PathAt(_, _, _)
PathAt(lines, i, tree) ==
    LET n == LeadingSpaces(lines[i])
        above == {j \in 1..(i - 1) :
                     /\ IsHeaderLine(lines[j])
                     /\ LeadingSpaces(lines[j]) = n - 2
                     /\ lines[j][n - 1] = FolderIcon}
        parent == IF n = 0 THEN <<>>
                  ELSE IF above = {} THEN NoPath
                  ELSE PathAt(lines, Max(above), tree)
        matches == {p \in DOMAIN tree :
                       /\ Len(p) = Len(parent) + 1
                       /\ Below(p, parent)
                       /\ ExpectedHeaderLine(tree, p) = lines[i]}
    IN IF parent = NoPath \/ matches = {} THEN NoPath
       ELSE CHOOSE p \in matches : TRUE

\* every header line of the output with the node it belongs to
HeaderLocations ==
    LET lines == FormattedLines
    IN {<<i, PathAt(lines, i, assembly.directoryTree)>> :
           i \in {j \in 1..Len(lines) : IsHeaderLine(lines[j])}}

\* the lines that, by the locations given, are the header of the node at path p
IndicesIn(located, p) == {x[1] : x \in {y \in located : y[2] = p}}

\* the lines that are the header of the node at path p
HeaderIndices(p) == IndicesIn(HeaderLocations, p)

\* p and q are different keys of one mapping
Siblings(p, q) ==
    /\ p # q
    /\ Len(p) = Len(q)
    /\ SubSeq(p, 1, Len(p) - 1) = SubSeq(q, 1, Len(q) - 1)

(***************************************************************************)
(* C17: within every mapping, at every nesting level, the entries appear   *)
(* in ascending case-sensitive lexicographic order of their keys, whatever *)
(* the order in which the keys were inserted.                              *)
(***************************************************************************)
C17_KeysAscending ==
    FormatDone =>
        LET located == HeaderLocations
        IN \A p, q \in DOMAIN assembly.directoryTree :
              (Siblings(p, q) /\ StringLess(p[Len(p)], q[Len(q)])) =>
                  /\ IndicesIn(located, p) # {}
                  /\ IndicesIn(located, q) # {}
                  /\ \A i \in IndicesIn(located, p), j \in IndicesIn(located, q) : i < j

\* keys inserted in descending order at the top level ("a" before "Z.d.e")
\* and inside a directory ("b" before "B.") were emitted in ascending order
C17_Witness ==
    /\ FormatDone
    /\ Len(assembly.files) = 3
    /\ Segments(assembly.files, 1) = <<<<"a">>, <<"b">>>>
    /\ Segments(assembly.files, 2) = <<<<"a">>, <<"B", ".">>>>
    /\ Segments(assembly.files, 3) = <<<<"Z", ".", "d", ".", "e">>>>
    /\ \E i \in HeaderIndices(<<<<"Z", ".", "d", ".", "e">>>>),
          j \in HeaderIndices(<<<<"a">>>>),
          k \in HeaderIndices(<<<<"a">>, <<"B", ".">>>>),
          l \in HeaderIndices(<<<<"a">>, <<"b">>>>) : i < j /\ j < k /\ k < l

(***************************************************************************)
(* C18: for every FileNode at key k the output has the header line         *)
(* "{indent}<file icon> k (size chars, .extension)", then one line per     *)
(* preview entry, in order, at indent plus three spaces, then the line     *)
(* "..." at indent plus three spaces, whether or not the preview is empty; *)
(* every line ends with a newline.                                         *)
(***************************************************************************)
C18_FileEntryLines ==
    FormatDone =>
        LET located == HeaderLocations
            lines == FormattedLines
        IN /\ Pop(FormattedPieces) = <<>>
           /\ \A p \in FileNodePaths :
                 LET node == assembly.directoryTree[p]
                     indent == Spaces(2 * (Len(p) - 1))
                     inner == indent \o <<" ", " ", " ">>
                     n == Len(node.preview)
                 IN /\ Cardinality(IndicesIn(located, p)) = 1
                    /\ \A i \in IndicesIn(located, p) :
                          /\ lines[i]
                               = indent \o <<FileIcon, " ">> \o p[Len(p)] \o <<" ", "(">>
                                 \o NumberString(node.size)
                                 \o <<" ", "c", "h", "a", "r", "s", ",", " ", ".">>
                                 \o node.extension \o <<")">>
                          /\ i + n + 1 <= Len(lines)
                          /\ \A k \in 1..n : lines[i + k] = inner \o node.preview[k]
                          /\ lines[i + n + 1] = inner \o <<".", ".", ".">>

\* a file without preview and a nested file with a preview of two lines
\* were both formatted
C18_Witness ==
    /\ FormatDone
    /\ \E p, q \in FileNodePaths :
          /\ assembly.directoryTree[p].preview = <<>>
          /\ Len(q) > 1
          /\ Len(assembly.directoryTree[q].preview) = 2
          /\ HeaderIndices(p) # {}
          /\ \E i \in HeaderIndices(q) : i + 3 <= Len(FormattedLines)

\* the directory nodes of the tree that was built
DirectoryNodePaths ==
    {p \in DOMAIN assembly.directoryTree : assembly.directoryTree[p].type = "directory"}

(***************************************************************************)
(* C19: for every DirectoryNode at key k the output has the line           *)
(* "{indent}<folder icon> k/" before every line of its descendants, and    *)
(* its children are indented by exactly two spaces more than it, level by  *)
(* level from no indent at the top; the empty mapping formats to the empty *)
(* string.                                                                 *)
(***************************************************************************)
C19_DirectoryLineAndIndent ==
    FormatDone =>
        LET located == HeaderLocations
            lines == FormattedLines
        IN /\ assembly.directoryTree = EmptyTree => assembly.formattedTree = <<>>
           /\ \A p \in DirectoryNodePaths :
                 /\ Cardinality(IndicesIn(located, p)) = 1
                 /\ \A i \in IndicesIn(located, p) :
                       /\ lines[i]
                            = Spaces(2 * (Len(p) - 1)) \o <<FolderIcon, " ">>
                              \o p[Len(p)] \o <<"/">>
                       /\ \A q \in DOMAIN assembly.directoryTree :
                             Below(q, p) =>
                                 /\ IndicesIn(located, q) # {}
                                 /\ \A j \in IndicesIn(located, q) :
                                       /\ i < j
                                       /\ Len(q) = Len(p) + 1 =>
                                             LeadingSpaces(lines[j])
                                               = LeadingSpaces(lines[i]) + 2

\* a directory inside a directory was formatted, its file four spaces in
C19_Witness ==
    /\ FormatDone
    /\ \E p, q, o \in DOMAIN assembly.directoryTree :
          /\ Len(p) = 1 /\ Below(q, p) /\ Below(o, q)
          /\ \E i \in HeaderIndices(p), j \in HeaderIndices(q), k \in HeaderIndices(o) :
                /\ i < j /\ j < k
                /\ LeadingSpaces(FormattedLines[j]) = 2
                /\ LeadingSpaces(FormattedLines[k]) = 4

(***************************************************************************)
(* C20: prepareFileContext emits exactly one block per entry of the list,  *)
(* also for an entry without filename or without content: the header      *)
(* "File: {filename}", followed by " [CURRENT FILE]" exactly when the      *)
(* filename equals currentFile, then the (truncated) content, then the     *)
(* line "---"; consecutive blocks are separated by one blank line, and the *)
(* empty list gives the empty string.                                      *)
(***************************************************************************)
C20_OneBlockPerEntry ==
    ContextDone =>
        LET cf == assembly.currentFile
            ordered == OrderedFiles(assembly.files, cf)
            out == assembly.fileContext
            n == Len(ordered)
        IN /\ n = 0 => out = <<>>
           /\ n > 0 => Len(out) = ExpectedBlockStart(ordered, n, cf)
                                  + ExpectedBlockLen(ordered[n], cf) - 1
           /\ \A i \in 1..n :
                 LET start == ExpectedBlockStart(ordered, i, cf)
                     len == ExpectedBlockLen(ordered[i], cf)
                     header == ExpectedHeader(ordered[i], cf)
                 IN /\ Take(out, start, start + Len(header)) = header \o <<"\n">>
                    /\ Take(out, start + len - Len(ExpectedBlockEnd), start + len - 1)
                         = ExpectedBlockEnd
                    /\ i < n => Take(out, start + len, start + len + 1) = ExpectedSeparator

\* three blocks were emitted for an entry without filename, an entry without
\* content and the current file
C20_Witness ==
    /\ ContextDone
    /\ Len(assembly.files) = 3
    /\ assembly.fileContext # <<>>
    /\ \E i, j, k \in 1..3 :
          /\ assembly.files[i].filename = Undefined
          /\ assembly.files[j].content = Undefined
          /\ assembly.files[j].filename # assembly.currentFile
          /\ assembly.files[k].filename = assembly.currentFile

\* generateResponse has settled
Settled == assembly.pc = "settled"

\* the upstream call was issued and has settled
UpstreamSettled == Settled /\ assembly.geminiCalls > 0

\* the three failures the claim names
NotInitialisedFailure ==
    /\ assembly.genError = NotInitializedMessage
    /\ assembly.geminiCalls = 0
UpstreamFailure ==
    /\ UpstreamSettled /\ ~assembly.upstream.ok
    /\ assembly.genError = <<"Gemini API error: ">> \o assembly.upstream.message
EmptyResponseFailure ==
    /\ UpstreamSettled /\ assembly.upstream.ok /\ assembly.upstream.text = ""
    /\ assembly.genError[Len(assembly.genError)] = "Empty response from Gemini"

\* the failure the claim leaves out: the prompt assembly raised
AssemblyFailure ==
    /\ generateDirectoryTree(assembly.files).threw
    /\ assembly.geminiCalls = 0
    /\ assembly.genError = <<"Gemini API error: ">> \o TreeTypeError

\* the conditions of the failures, and what a settled call holds
FailureConditionsAndOutcome(failures) ==
    Settled =>
        /\ assembly.genState \in {"resolved", "rejected"}
        /\ ~geminiModel => assembly.genState = "rejected" /\ NotInitialisedFailure
        /\ (UpstreamSettled /\ ~assembly.upstream.ok) =>
              assembly.genState = "rejected" /\ UpstreamFailure
        /\ (UpstreamSettled /\ assembly.upstream.ok /\ assembly.upstream.text = "") =>
              assembly.genState = "rejected" /\ EmptyResponseFailure
        /\ assembly.genState = "rejected" => failures /\ assembly.genText = ""
        /\ assembly.genState = "resolved" =>
              /\ assembly.genError = <<>>
              /\ assembly.genText = assembly.upstream.text
              /\ assembly.genText # ""

(***************************************************************************)
(* C21 as stated: generateResponse fails in exactly three ways (no model:  *)
(* "not initialized", no upstream call; upstream error m: m behind the     *)
(* prefix "Gemini API error: "; empty text: "empty response") and succeeds *)
(* otherwise; no failure is swallowed.                                     *)
(***************************************************************************)
C21_ThreeFailures ==
    FailureConditionsAndOutcome(
        NotInitialisedFailure \/ UpstreamFailure \/ EmptyResponseFailure)

(***************************************************************************)
(* C21: generateResponse fails with "not initialized" and no upstream call *)
(* when there is no model, with m behind the prefix "Gemini API error: "   *)
(* when the upstream call fails with m, with the "empty response" error    *)
(* behind that prefix when the upstream text is empty, and, when the       *)
(* prompt assembly raises (a path that runs through an earlier file's      *)
(* path), with that error behind the prefix and no upstream call; it       *)
(* succeeds with the upstream text otherwise, and no failure is swallowed. *)
(***************************************************************************)
C21_FourFailures ==
    FailureConditionsAndOutcome(
        NotInitialisedFailure \/ UpstreamFailure \/ EmptyResponseFailure
        \/ AssemblyFailure)

\* an upstream error came back wrapped in the prefix
C21_Witness ==
    /\ Settled
    /\ assembly.genState = "rejected"
    /\ assembly.upstream.message = <<"boom">>
    /\ assembly.genError = <<"Gemini API error: ", "boom">>
    /\ assembly.geminiCalls = 1

\* the tree built from the first k files
TreeOfFirst(files, k) == generateDirectoryTree(SubSeq(files, 1, k)).tree

\* the extension expected for a final path segment
ExpectedExtension(segment) ==
    IF AfterLastDot(segment) = <<>> THEN <<"u", "n", "k", "n", "o", "w", "n">>
    ELSE AfterLastDot(segment)

(***************************************************************************)
(* C26: the files are processed in input order; a later file leaves every  *)
(* FileNode that is still in the tree as it was unless it has the same     *)
(* full path, and a path that occurs more than once ends with the size,    *)
(* extension and preview of its last occurrence.                           *)
(***************************************************************************)
C26_LastOccurrenceWins ==
    TreeDone =>
        LET files == assembly.files
        IN /\ TreeOfFirst(files, Len(files)) = assembly.directoryTree
           /\ \A k \in 1..Len(files) :
                 LET before == TreeOfFirst(files, k - 1)
                     after == TreeOfFirst(files, k)
                 IN \A p \in DOMAIN before \cap DOMAIN after :
                       (before[p].type = "file" /\ Segments(files, k) # p) =>
                           after[p] = before[p]
           /\ \A p \in FileNodePaths :
                 LET last == assembly.files[LastWriter(files, p)]
                     all == TrimmedLines(ContentOf(last))
                 IN assembly.directoryTree[p]
                      = [type |-> "file",
                         size |-> Len(ContentOf(last)),
                         extension |-> ExpectedExtension(p[Len(p)]),
                         preview |-> SubSeq(all, 1, Min(Len(all), PreviewLines))]

\* one path occurred twice with contents of different sizes, and the node
\* has the size of the second
C26_Witness ==
    /\ TreeDone
    /\ \E i, j \in 1..Len(assembly.files) :
          /\ i < j
          /\ Named(assembly.files, i)
          /\ Segments(assembly.files, i) = Segments(assembly.files, j)
          /\ Len(ContentOf(assembly.files[i])) # Len(ContentOf(assembly.files[j]))
          /\ assembly.directoryTree[Segments(assembly.files, j)].size
               = Len(ContentOf(assembly.files[j]))

\* the named files have distinct paths, none running through another's
DistinctUnnestedPaths(files) ==
    \A i, j \in 1..Len(files) :
        (i # j /\ Named(files, i) /\ Named(files, j)) =>
            /\ Segments(files, i) # Segments(files, j)
            /\ ~Below(Segments(files, i), Segments(files, j))

C29_PathConflictRaises ==
    \A r \in Reqs :
        LET files == req[r].body.files.val
        IN (/\ Started(r)
            /\ ValidationError(req[r].body) = NoError
            /\ ~NullEntry(files)) =>
               /\ PathConflict(files) =>
                     /\ req[r].pc = "done"
                     /\ req[r].sent = <<[status |-> 500, error |-> "Internal server error",
                                         message |-> TreeTypeError]>>
                     /\ req[r].genCalls = <<>>
                     /\ req[r].geminiCalls = 0
               /\ ~PathConflict(files) =>
                     /\ Len(req[r].genCalls) = 1
                     /\ \A i, j \in 1..Len(files) :
                           (i < j /\ Segments(files, j) # <<>>
                            /\ Below(Segments(files, i), Segments(files, j))) =>
                               /\ req[r].tree[Segments(files, j)].type = "file"
                               /\ \A p \in DOMAIN req[r].tree : ~Below(p, Segments(files, j))

\* both orders were answered: ["a", "a/b"] with 500 and no model call,
\* ["a/b", "a"] with a tree that holds the file "a" alone
C29_Witness ==
    \E r, q \in Reqs :
        /\ Started(r) /\ ValidationError(req[r].body) = NoError
        /\ Started(q) /\ ValidationError(req[q].body) = NoError
        /\ ~NullEntry(req[r].body.files.val) /\ Len(req[r].body.files.val) = 2
        /\ ~NullEntry(req[q].body.files.val) /\ Len(req[q].body.files.val) = 2
        /\ Segments(req[r].body.files.val, 1) = <<<<"a">>>>
        /\ Segments(req[r].body.files.val, 2) = <<<<"a">>, <<"b">>>>
        /\ req[r].sent # <<>> /\ req[r].sent[1].status = 500
        /\ req[r].genCalls = <<>>
        /\ Segments(req[q].body.files.val, 1) = <<<<"a">>, <<"b">>>>
        /\ Segments(req[q].body.files.val, 2) = <<<<"a">>>>
        /\ req[q].sent # <<>> /\ req[q].sent[1].status = 200
        /\ DOMAIN req[q].sent[1].directoryTree = {<<<<"a">>>>}

(***************************************************************************)
(* callBackendAPI (backendClient.ts).                                      *)
(***************************************************************************)
\* the values of the ai-chatbot.backendUrl setting
BackendUrls == {"http://localhost:3001", "https://api.example/", "localhost:3001"}

\* line 12: new URL('/upload', base) throws a TypeError for a base that has
\* no scheme of its own
ValidBase(backendUrl) == backendUrl \in {"http://localhost:3001", "https://api.example/"}

ClientCurrentFiles == {Undefined, Str(<<>>), Str(<<"a">>)}

\* lines 14-17: the request payload, with currentFile only when it is truthy
Payload(files, prompt, currentFile) ==
    IF Truthy(currentFile)
    THEN [files |-> files, prompt |-> prompt, currentFile |-> currentFile]
    ELSE [files |-> files, prompt |-> prompt]

\* res.statusCode of the responses the backend or a proxy in front of it gives
StatusCodes == {Undefined, Num(0), Num(199), Num(200), Num(299), Num(300), Num(500)}

JSONObject(error, aiResponse, message) ==
    [kind |-> "object", error |-> error, aiResponse |-> aiResponse, message |-> message]

SyntaxError == [threw |-> TRUE, value |-> Undefined]
Parsed(value) == [threw |-> FALSE, value |-> value]

\* the response bodies, and what JSON.parse makes of each
RawBodies ==
    {"", "<html>", "null", "5", "{}",
     "{\"error\":\"Internal server error\",\"message\":\"m\"}",
     "{\"error\":\"\",\"aiResponse\":\"hi\"}",
     "{\"aiResponse\":\"hi\",\"message\":\"m\"}",
     "{\"aiResponse\":\" \",\"message\":\"m\"}",
     "{\"aiResponse\":5,\"message\":\"m\"}",
     "{\"message\":\" \"}",
     "{\"aiResponse\":null,\"message\":7}"}

JSONParse(rawData) ==
    CASE rawData = "" -> SyntaxError
      [] rawData = "<html>" -> SyntaxError
      [] rawData = "null" -> Parsed(Null)
      [] rawData = "5" -> Parsed(Num(5))
      [] rawData = "{}" -> Parsed(JSONObject(Undefined, Undefined, Undefined))
      [] rawData = "{\"error\":\"Internal server error\",\"message\":\"m\"}" ->
            Parsed(JSONObject(Str(<<"Internal server error">>), Undefined, Str(<<"m">>)))
      [] rawData = "{\"error\":\"\",\"aiResponse\":\"hi\"}" ->
            Parsed(JSONObject(Str(<<>>), Str(<<"h", "i">>), Undefined))
      [] rawData = "{\"aiResponse\":\"hi\",\"message\":\"m\"}" ->
            Parsed(JSONObject(Undefined, Str(<<"h", "i">>), Str(<<"m">>)))
      [] rawData = "{\"aiResponse\":\" \",\"message\":\"m\"}" ->
            Parsed(JSONObject(Undefined, Str(<<" ">>), Str(<<"m">>)))
      [] rawData = "{\"aiResponse\":5,\"message\":\"m\"}" ->
            Parsed(JSONObject(Undefined, Num(5), Str(<<"m">>)))
      [] rawData = "{\"message\":\" \"}" ->
            Parsed(JSONObject(Undefined, Undefined, Str(<<" ">>)))
      [] rawData = "{\"aiResponse\":null,\"message\":7}" ->
            Parsed(JSONObject(Undefined, Null, Num(7)))

\* a property of a parsed body: undefined on anything but an object
Property(payload, name) ==
    IF payload.kind = "object"
    THEN CASE name = "error" -> payload.error
           [] name = "aiResponse" -> payload.aiResponse
           [] name = "message" -> payload.message
    ELSE Undefined

Rejected(message) == [state |-> "rejected", value |-> Undefined, message |-> message]
Resolved(value) == [state |-> "resolved", value |-> value, message |-> <<>>]

\* line 40
BadStatus(statusCode) ==
    \/ ~Truthy(statusCode)
    \/ statusCode.val[1] < 200
    \/ statusCode.val[1] >= 300

\* variant: the message field is preferred to aiResponse
OnEndMessageFirst(statusCode, rawData) ==
    IF BadStatus(statusCode) THEN Rejected(<<"Backend API error: ", statusCode>>)
    ELSE LET parsed == JSONParse(rawData)
         IN IF parsed.threw \/ parsed.value.kind = "null"
            THEN Rejected(<<"Invalid response from backend: ", rawData>>)
            ELSE LET message == Property(parsed.value, "message")
                     aiResponse == IF message.kind = "string" THEN message
                                   ELSE Property(parsed.value, "aiResponse")
                 IN IF Truthy(Property(parsed.value, "error"))
                    THEN Rejected(<<Property(parsed.value, "error")>>)
                    ELSE IF aiResponse.kind = "string" /\ Len(Trim(aiResponse.val)) > 0
                    THEN Resolved(aiResponse)
                    ELSE Rejected(<<"Backend response received but no AI content was provided.">>)

\* lines 39-63, the 'end' handler of the response: the settlement it asks for.
\* JSON.parse throwing and the property access on a parsed null both land in
\* the catch block of line 60.
OnEnd(statusCode, rawData) ==
    IF BadStatus(statusCode) THEN Rejected(<<"Backend API error: ", statusCode>>)
    ELSE LET parsed == JSONParse(rawData)
         IN IF parsed.threw \/ parsed.value.kind = "null"
            THEN Rejected(<<"Invalid response from backend: ", rawData>>)
            ELSE LET payload == parsed.value
                     aiResponse == IF Property(payload, "aiResponse").kind = "string"
                                   THEN Property(payload, "aiResponse")
                                   ELSE Property(payload, "message")
                 IN IF Truthy(Property(payload, "error"))
                    THEN Rejected(<<Property(payload, "error")>>)
                    ELSE IF aiResponse.kind = "string" /\ Len(Trim(aiResponse.val)) > 0
                    THEN Resolved(aiResponse)
                    ELSE Rejected(<<"Backend response received but no AI content was provided.">>)

\* resolve and reject of the promise of line 20: only the first call settles it
SettlePromise(promise, outcome) == IF promise.state = "pending" THEN outcome ELSE promise

\* the errors the request emits (connection refused, reset, ...)
RequestErrorMessages == {"ECONNREFUSED"}

ClientInit ==
    /\ BackendIdle
    /\ ExtensionIdle
    /\ \E backendUrl \in BackendUrls, currentFile \in ClientCurrentFiles :
          client = [NoClient EXCEPT !.pc = "start", !.backendUrl = backendUrl,
                                    !.currentFile = currentFile]

\* lines 12-18 and 64-71: the URL is built, the payload serialised and the
\* request sent; a TypeError of `new URL` rejects the async function's promise
StartRequest ==
    /\ client.pc = "start"
    /\ client' =
          IF ~ValidBase(client.backendUrl)
          THEN [client EXCEPT !.pc = "done",
                              !.promise = Rejected(<<"Invalid URL">>),
                              !.settlements = <<[by |-> "url",
                                                 outcome |-> Rejected(<<"Invalid URL">>)]>>]
          ELSE [client EXCEPT !.pc = "inFlight",
                              !.payload = Payload(<<>>, Str(<<"h", "i">>), client.currentFile)]
    /\ UNCHANGED <<backendVars, extensionVars>>

\* lines 32-63: the response has been read to its end
ResponseEnds(statusCode, rawData) ==
    /\ client.pc = "inFlight"
    /\ ~client.ended
    /\ LET outcome == OnEnd(statusCode, rawData)
       IN client' = [client EXCEPT
                        !.ended = TRUE, !.statusCode = statusCode, !.rawData = rawData,
                        !.promise = SettlePromise(client.promise, outcome),
                        !.settlements = Append(client.settlements,
                                               [by |-> "end", outcome |-> outcome])]
    /\ UNCHANGED <<backendVars, extensionVars>>

\* lines 66-68: the request emits 'error'
RequestErrors(message) ==
    /\ client.pc = "inFlight"
    /\ ~client.errored
    /\ LET outcome == Rejected(<<message>>)
       IN client' = [client EXCEPT
                        !.errored = TRUE,
                        !.promise = SettlePromise(client.promise, outcome),
                        !.settlements = Append(client.settlements,
                                               [by |-> "error", outcome |-> outcome])]
    /\ UNCHANGED <<backendVars, extensionVars>>

ClientNext ==
    \/ StartRequest
    \/ \E statusCode \in StatusCodes, rawData \in RawBodies : ResponseEnds(statusCode, rawData)
    \/ \E message \in RequestErrorMessages : RequestErrors(message)

ClientSpec == ClientInit /\ [][ClientNext]_vars

\* the conditions under which the claim has the promise reject, read off the
\* response that ended
BodyOf(rawData) == JSONParse(rawData).value
SelectedText(rawData) ==
    IF Property(BodyOf(rawData), "aiResponse").kind = "string"
    THEN Property(BodyOf(rawData), "aiResponse")
    ELSE Property(BodyOf(rawData), "message")
NonBlank(v) == v.kind = "string" /\ \E i \in 1..Len(v.val) : v.val[i] \notin Whitespace
RejectCondition ==
    /\ client.ended
    /\ \/ client.statusCode.kind # "number"
       \/ client.statusCode.val[1] \notin 200..299
       \/ JSONParse(client.rawData).threw
       \/ Truthy(Property(BodyOf(client.rawData), "error"))
       \/ ~NonBlank(SelectedText(client.rawData))

PayloadAsClaimed ==
    client.pc = "inFlight" =>
        /\ ("currentFile" \in DOMAIN client.payload)
              <=> (client.currentFile.kind = "string" /\ client.currentFile.val # <<>>)
        /\ "currentFile" \in DOMAIN client.payload =>
              client.payload.currentFile = client.currentFile

\* C25 as stated: the promise rejects under the four conditions on the
\* response and resolves otherwise
C25_RejectsOnResponseOnly ==
    /\ PayloadAsClaimed
    /\ client.promise.state # "pending" =>
          IF RejectCondition THEN client.promise.state = "rejected"
          ELSE /\ client.promise.state = "resolved"
               /\ client.promise.value = SelectedText(client.rawData)

(***************************************************************************)
(* C25: the promise of callBackendAPI is settled by the first of the       *)
(* request's error and the response's end, and by nothing after it.  It    *)
(* rejects when the backend URL does not parse, when the request errors    *)
(* first, and when the response that ended has a status outside 200-299,   *)
(* a body that is not valid JSON, a truthy error field or no non-blank AI  *)
(* text; otherwise it resolves with aiResponse when that is a string and   *)
(* with message only when it is not.  currentFile is in the payload only   *)
(* when it is a non-empty string.                                          *)
(***************************************************************************)
C25_SettledByFirstEvent ==
    /\ PayloadAsClaimed
    /\ (client.promise.state = "pending") <=> (client.settlements = <<>>)
    /\ client.settlements # <<>> =>
          LET first == client.settlements[1]
          IN /\ client.promise = first.outcome
             /\ first.by \in {"url", "error"} => client.promise.state = "rejected"
             /\ first.by = "end" =>
                   IF RejectCondition THEN client.promise.state = "rejected"
                   ELSE /\ client.promise.state = "resolved"
                        /\ client.promise.value = SelectedText(client.rawData)

\* a response whose aiResponse is not a string resolved the promise with its
\* message, a request error after it changed nothing, and the payload
\* carried the current file
C25_Witness ==
    /\ Len(client.settlements) = 2
    /\ client.settlements[1].by = "end"
    /\ Property(BodyOf(client.rawData), "aiResponse") = Num(5)
    /\ client.promise = Resolved(Str(<<"m">>))
    /\ "currentFile" \in DOMAIN client.payload
    /\ client.payload.currentFile = Str(<<"a">>)

(***************************************************************************)
(* ChatWebviewProvider (chatWebviewProvider.ts).                           *)
(***************************************************************************)
Message(type, payload) == [type |-> type, payload |-> payload]

ChatMessage(type, content) == [type |-> type, content |-> content]

\* the message lists a webview sends with SAVE_CHAT_HISTORY, and what the
\* global state holds from an earlier session
Histories ==
    {<<>>,
     <<ChatMessage("user", <<"q">>), ChatMessage("ai", <<"o", "k">>)>>}

\* saveChatHistory of the webview posts no empty list
SavedHistories == Histories \ {<<>>}

\* the state store (stateStore.ts) over the extension's global state
getChatHistory(prov) == prov.history
saveChatHistory(prov, messages) == [prov EXCEPT !.history = messages]
clearChatHistory(prov) == [prov EXCEPT !.history = <<>>]

\* lines 339-341: postMessage on the webview of the referenced panel, if any
SendMessageToWebview(prov, pans, message) ==
    IF prov.panel = 0 THEN pans
    ELSE [pans EXCEPT ![prov.panel].posted = Append(@, message)]

\* one more message can be posted
RECURSIVE TotalPosted(_, _)
TotalPosted(pans, p) ==
    IF p = 0 THEN 0 ELSE Len(pans[p].posted) + TotalPosted(pans, p - 1)

Room(prov, pans) == prov.panel = 0 \/ TotalPosted(pans, MaxPanels) < MaxPosted

\* lines 346-358
LoadChatHistory(prov, pans) ==
    IF prov.panel = 0 THEN pans
    ELSE IF Len(getChatHistory(prov)) > 0
    THEN SendMessageToWebview(prov, pans, Message("loadChatHistory", getChatHistory(prov)))
    ELSE pans

\* panel.reveal throws on a panel that has been disposed
RevealThrows(prov, pans) == pans[prov.panel].state = "disposed"

\* variant: reveal never throws, a disposed panel passes for the existing one
TryRevealNeverThrows(prov, pans, initialMessage) ==
    IF prov.panel = 0 THEN [revealed |-> FALSE, provider |-> prov, panels |-> pans]
    ELSE [revealed |-> TRUE, provider |-> prov,
          panels |-> IF Truthy(initialMessage)
                     THEN SendMessageToWebview(prov, pans,
                                               Message("initialMessage", initialMessage))
                     ELSE pans]

\* lines 80-101
TryRevealExistingPanel(prov, pans, initialMessage) ==
    IF prov.panel = 0 THEN [revealed |-> FALSE, provider |-> prov, panels |-> pans]
    ELSE IF RevealThrows(prov, pans)
    THEN [revealed |-> FALSE, provider |-> [prov EXCEPT !.panel = 0], panels |-> pans]
    ELSE [revealed |-> TRUE, provider |-> prov,
          panels |-> IF Truthy(initialMessage)
                     THEN SendMessageToWebview(prov, pans,
                                               Message("initialMessage", initialMessage))
                     ELSE pans]

\* the panel vscode.window.createWebviewPanel returns, and the one the editor
\* hands to restore, with the handlers the provider registers on each
OpenedPanel(origin, eventHandlers) ==
    [state |-> "open", origin |-> origin, eventHandlers |-> eventHandlers,
     posted |-> <<>>, loadPending |-> TRUE]

\* variant: the state store is not cleared when a panel is created
CreateNewPanelKeepsHistory(prov, pans, initialMessage, p) ==
    LET withPanel == [prov EXCEPT !.panel = p, !.found = getChatHistory(prov),
                                    !.saved = FALSE]
        opened == [pans EXCEPT ![p] = OpenedPanel("created", TRUE)]
    IN [provider |-> withPanel,
        panels |-> IF Truthy(initialMessage)
                   THEN SendMessageToWebview(withPanel, opened,
                                             Message("initialMessage", initialMessage))
                   ELSE opened]

\* lines 107-136, p being the panel the editor creates
CreateNewPanel(prov, pans, initialMessage, p) ==
    LET withPanel == [clearChatHistory(prov) EXCEPT
                         !.panel = p, !.found = getChatHistory(prov), !.saved = FALSE]
        opened == [pans EXCEPT ![p] = OpenedPanel("created", TRUE)]
    IN [provider |-> withPanel,
        panels |-> IF Truthy(initialMessage)
                   THEN SendMessageToWebview(withPanel, opened,
                                             Message("initialMessage", initialMessage))
                   ELSE opened]

InitialMessages == {Undefined, Str(<<>>), Str(<<"h", "i">>)}

UnusedPanels == {p \in Panels : panels[p].state = "unused"}
NextPanel == CHOOSE p \in UnusedPanels : \A q \in UnusedPanels : p <= q

\* the extension is activated: the global state holds what an earlier
\* session saved
ProviderInit ==
    /\ BackendIdle
    /\ client = NoClient
    /\ \E history \in Histories : provider = [NoProvider EXCEPT !.history = history]
    /\ panels = [p \in Panels |-> NoPanel]
    /\ handlers = [h \in Handlers |-> NoHandler]
    /\ webview = NoWebview

\* lines 47-53
CreateOrShow(initialMessage) ==
    /\ Room(provider, panels)
    /\ LET tried == TryRevealExistingPanel(provider, panels, initialMessage)
       IN IF tried.revealed
          THEN /\ provider' = tried.provider
               /\ panels' = tried.panels
          ELSE /\ UnusedPanels # {}
               /\ LET created == CreateNewPanel(tried.provider, tried.panels,
                                                initialMessage, NextPanel)
                  IN /\ provider' = created.provider
                     /\ panels' = created.panels
    /\ UNCHANGED <<handlers, webview, backendVars, client>>

\* lines 60-65: the editor revives a serialised panel and hands it over
Restore ==
    /\ UnusedPanels # {}
    /\ provider' = [provider EXCEPT !.panel = NextPanel,
                                     !.found = getChatHistory(provider),
                                     !.saved = FALSE]
    /\ panels' = [panels EXCEPT ![NextPanel] = OpenedPanel("restored", FALSE)]
    /\ UNCHANGED <<handlers, webview, backendVars, client>>

\* the editor disposes panel p (the user closes it); lines 163-166 run if the
\* provider registered them on p
EditorDisposes(p) ==
    /\ panels[p].state = "open"
    /\ panels' = [panels EXCEPT ![p].state = "disposed"]
    /\ provider' = IF panels[p].eventHandlers THEN [provider EXCEPT !.panel = 0]
                   ELSE provider
    /\ UNCHANGED <<handlers, webview, backendVars, client>>

\* lines 169-174
ViewStateChange(p, visible, active) ==
    /\ Room(provider, panels)
    /\ panels[p].state = "open"
    /\ panels[p].eventHandlers
    /\ panels' = IF visible /\ active THEN LoadChatHistory(provider, panels) ELSE panels
    /\ UNCHANGED <<provider, handlers, webview, backendVars, client>>

\* lines 363-367: the timer set when panel p was opened fires
LoadTimerFires(p) ==
    /\ Room(provider, panels)
    /\ panels[p].loadPending
    /\ panels' = [LoadChatHistory(provider, panels) EXCEPT ![p].loadPending = FALSE]
    /\ UNCHANGED <<provider, handlers, webview, backendVars, client>>

\* lines 195-197 and 373-376: SAVE_CHAT_HISTORY arrives from the webview of p
ReceiveSaveChatHistory(p, messages) ==
    /\ panels[p].state = "open"
    /\ provider' = [saveChatHistory(provider, messages) EXCEPT !.saved = TRUE]
    /\ UNCHANGED <<panels, handlers, webview, backendVars, client>>

\* lines 198-200: REQUEST_CHAT_HISTORY arrives from the webview of p
ReceiveRequestChatHistory(p) ==
    /\ Room(provider, panels)
    /\ panels[p].state = "open"
    /\ panels' = LoadChatHistory(provider, panels)
    /\ UNCHANGED <<provider, handlers, webview, backendVars, client>>

\* the texts of lines 219 and 238
LoadingText == "Processing your request... pulling workspace context."
FailurePrefix == "Failed to contact the Gemini backend: "

\* what getWorkspaceFilesWithContent and callBackendAPI settle with: a value,
\* an Error with a message, or a thrown value that is not an Error
Fulfilled(value) == [ok |-> TRUE, isError |-> FALSE, value |-> value, message |-> ""]
Failed(isError, message) == [ok |-> FALSE, isError |-> isError, value |-> "", message |-> message]
GatherOutcomes == {Fulfilled("files"), Failed(TRUE, "EACCES"), Failed(FALSE, "denied")}
BackendOutcomes == {Fulfilled("ok"), Failed(TRUE, "Backend API error: 500")}

\* line 235
ErrorMessage(outcome) == IF outcome.isError THEN outcome.message ELSE "Unknown error"

\* lines 232-240, the catch block's message
FailureResponse(outcome) ==
    Message("aiResponse", <<FailurePrefix, ErrorMessage(outcome)>>)

IdleHandlers == {h \in Handlers : handlers[h].pc = "idle"}
NextHandler == CHOOSE h \in IdleHandlers : \A g \in IdleHandlers : h <= g

\* what invocation h has posted, with the panel each message went to
Posts(h, message) ==
    IF provider.panel = 0 THEN handlers[h].posts
    ELSE Append(handlers[h].posts, [panel |-> provider.panel, message |-> message])

\* variant: the response is posted to the panel the handler started with,
\* whether or not the provider still references it
HandlerPostsToEntryPanel(h, message, pc) ==
    LET entry == handlers[h].posts[1].panel
    IN /\ panels' = [panels EXCEPT ![entry].posted = Append(@, message)]
       /\ handlers' = [handlers EXCEPT
                          ![h].pc = pc,
                          ![h].posts = Append(@, [panel |-> entry, message |-> message]),
                          ![h].finishedWith = provider.panel]

\* _sendMessageToWebview called by invocation h, which goes on to pc;
\* `finishedWith` keeps the panel the provider referenced at that moment
HandlerPosts(h, message, pc) ==
    /\ panels' = SendMessageToWebview(provider, panels, message)
    /\ handlers' = [handlers EXCEPT ![h].pc = pc, ![h].posts = Posts(h, message),
                                    ![h].finishedWith = provider.panel]

\* lines 210-223: _handleUserMessage runs up to its first await
HandleUserMessage(text) ==
    /\ Room(provider, panels)
    /\ IdleHandlers # {}
    /\ LET h == NextHandler
       IN IF provider.panel = 0
          THEN /\ handlers' = [handlers EXCEPT ![h].pc = "done", ![h].text = text]
               /\ panels' = panels
          ELSE /\ panels' = SendMessageToWebview(provider, panels,
                                Message("aiResponse", <<LoadingText>>))
               /\ handlers' = [handlers EXCEPT
                     ![h] = [pc |-> "gathering", text |-> text, entered |-> TRUE,
                             posts |-> Posts(h, Message("aiResponse", <<LoadingText>>)),
                             gatherCalls |-> 1, backendCalls |-> 0,
                             finishedWith |-> 0]]

\* lines 183-185: SEND_MESSAGE arrives from the webview of p
ReceiveSendMessage(p, text) ==
    /\ panels[p].state = "open"
    /\ HandleUserMessage(text)
    /\ UNCHANGED <<provider, webview, backendVars, client>>

\* lines 223-226 and 232-240: getWorkspaceFilesWithContent settles
GatherSettles(h, outcome) ==
    /\ handlers[h].pc = "gathering"
    /\ Room(provider, panels)
    /\ IF outcome.ok
       THEN /\ handlers' = [handlers EXCEPT ![h].pc = "calling", ![h].backendCalls = 1]
            /\ panels' = panels
       ELSE HandlerPosts(h, FailureResponse(outcome), "done")
    /\ UNCHANGED <<provider, webview, backendVars, client>>

\* lines 226-240: callBackendAPI settles
BackendSettles(h, outcome) ==
    /\ handlers[h].pc = "calling"
    /\ Room(provider, panels)
    /\ IF outcome.ok
       THEN HandlerPosts(h, Message("aiResponse", <<outcome.value>>), "done")
       ELSE HandlerPosts(h, FailureResponse(outcome), "done")
    /\ UNCHANGED <<provider, webview, backendVars, client>>

UserTexts == {<<"q">>}

\* the panel's life and the chat history
PanelNext ==
    \/ \E initialMessage \in InitialMessages : CreateOrShow(initialMessage)
    \/ Restore
    \/ \E p \in Panels : EditorDisposes(p)
    \/ \E p \in Panels, visible \in BOOLEAN, active \in BOOLEAN :
          ViewStateChange(p, visible, active)
    \/ \E p \in Panels : LoadTimerFires(p)
    \/ \E p \in Panels, messages \in SavedHistories : ReceiveSaveChatHistory(p, messages)
    \/ \E p \in Panels : ReceiveRequestChatHistory(p)

PanelSpec == ProviderInit /\ [][PanelNext]_vars

\* user messages, with panels opened, adopted and disposed while they are
\* being handled
HandlerNext ==
    \/ \E initialMessage \in InitialMessages : CreateOrShow(initialMessage)
    \/ Restore
    \/ \E p \in Panels : EditorDisposes(p)
    \/ \E p \in Panels, text \in UserTexts : ReceiveSendMessage(p, text)
    \/ \E h \in Handlers, outcome \in GatherOutcomes : GatherSettles(h, outcome)
    \/ \E h \in Handlers, outcome \in BackendOutcomes : BackendSettles(h, outcome)

HandlerSpec == ProviderInit /\ [][HandlerNext]_vars

\* a LOAD_CHAT_HISTORY was posted to the webview of p
LoadsPosted(p) ==
    {i \in 1..Len(panels[p].posted) : panels[p].posted[i].type = "loadChatHistory"}

\* p is the referenced panel, open, and its delayed load has run
OpenedAndLoaded(p, origin) ==
    /\ provider.panel = p
    /\ panels[p].state = "open"
    /\ panels[p].origin = origin
    /\ ~panels[p].loadPending

OpenPanels == {p \in Panels : panels[p].state = "open"}
RestoredPanels == {p \in Panels : panels[p].origin = "restored"}

\* the reference is to a panel that has been disposed
Stale == provider.panel # 0 /\ panels[provider.panel].state = "disposed"

\* what a step of createOrShow(initialMessage) does
CreateOrShowAsClaimed(initialMessage) ==
    LET old == provider.panel
        new == provider'.panel
        opened == {p \in Panels : panels[p].state = "unused" /\ panels'[p].state = "open"}
    IN /\ Cardinality(opened) <= 1
       /\ (opened # {}) <=> (old = 0 \/ Stale)
       /\ \A p \in Panels \ opened : panels'[p].state = panels[p].state
       /\ opened # {} =>
             /\ opened = {new}
             /\ \A p \in Panels \ opened : panels'[p] = panels[p]
             /\ panels'[new].posted =
                   IF Truthy(initialMessage)
                   THEN <<Message("initialMessage", initialMessage)>>
                   ELSE <<>>
       /\ opened = {} =>
             /\ new = old
             /\ \A p \in Panels \ {old} : panels'[p] = panels[p]
             /\ panels'[old].posted =
                   IF Truthy(initialMessage)
                   THEN Append(panels[old].posted, Message("initialMessage", initialMessage))
                   ELSE panels[old].posted

(***************************************************************************)
(* C23: the provider references at most one panel, and as long as panels   *)
(* come from createOrShow alone the referenced panel is the one open       *)
(* panel.  createOrShow creates a panel only when no panel is referenced   *)
(* or the referenced one is disposed, so that reveal throws; the stale     *)
(* reference is dropped and no message is sent to that panel.  When reveal *)
(* succeeds no panel is created and the initial message, if there is one,  *)
(* is posted to the existing panel.                                        *)
(***************************************************************************)
C23_OnePanel ==
    /\ [](/\ provider.panel \in 0..MaxPanels
          /\ RestoredPanels = {} =>
                /\ Cardinality(OpenPanels) <= 1
                /\ \A p \in Panels : (provider.panel = p) <=> (p \in OpenPanels))
    /\ [][\A initialMessage \in InitialMessages :
             CreateOrShow(initialMessage) => CreateOrShowAsClaimed(initialMessage)]_vars

\* a stale reference was replaced by a new panel, which got the initial
\* message when it was created and another one when it was revealed; the
\* disposed panel got none
C23_Witness ==
    \E p, q \in Panels :
        /\ panels[p].state = "disposed"
        /\ panels[p].origin = "restored"
        /\ panels[p].posted = <<>>
        /\ provider.panel = q
        /\ panels[q].origin = "created"
        /\ Len(panels[q].posted) = 2
        /\ \A i \in 1..2 : panels[q].posted[i].type = "initialMessage"

\* C28 as stated: the disposal of the referenced panel clears the reference,
\* whichever way the provider came by the panel, so that the reference is
\* never to a disposed panel
C28_DisposalClearsReference ==
    \A p \in Panels : panels[p].state = "disposed" => provider.panel # p

\* message is the loading text, the backend's answer or the failure text
IsLoading(message) == message = Message("aiResponse", <<LoadingText>>)
IsAnswer(message) ==
    /\ message.type = "aiResponse"
    /\ \/ \E outcome \in BackendOutcomes :
             outcome.ok /\ message.payload = <<outcome.value>>
       \/ /\ Len(message.payload) = 2
          /\ message.payload[1] = FailurePrefix

\* an invocation that found no panel posts nothing and calls neither the
\* file gatherer nor the backend
NothingWithoutPanel(h) ==
    /\ handlers[h].pc = "done"
    /\ handlers[h].posts = <<>>
    /\ handlers[h].gatherCalls = 0
    /\ handlers[h].backendCalls = 0

TextContent(markdown) ==
    IF /\ Len(markdown) >= 3
       /\ markdown[1] = "*"
       /\ markdown[Len(markdown)] = "*"
       /\ \A i \in 2..(Len(markdown) - 1) : markdown[i] # "*"
    THEN SubSeq(markdown, 2, Len(markdown) - 1)
    ELSE markdown

\* lines 283-309: the element addMessageWithParsing appends
Element(type, content) ==
    [type |-> IF type = "user" THEN "user" ELSE "ai",
     raw |-> IF type = "ai" THEN content ELSE <<>>,
     text |-> TextContent(content)]

\* the greeting the fallback page starts with: no data-raw-content
Welcome == [type |-> "ai", raw |-> <<>>, text |-> <<"Hello!">>]

\* lines 350-382
collectMessagesForSave(messages) ==
    LET kept == SelectSeq(SubSeq(messages, 2, Len(messages)),
                          LAMBDA e : e.type = "user" \/ e.raw # <<>>)
    IN [i \in 1..Len(kept) |->
           ChatMessage(kept[i].type,
                       IF kept[i].type = "user" THEN kept[i].text ELSE kept[i].raw)]

\* lines 384-391: the outbox after saveChatHistory
WebviewSaveChatHistory(messages, outbox) ==
    IF Len(collectMessagesForSave(messages)) = 0 THEN outbox
    ELSE Append(outbox, Message("saveChatHistory", collectMessagesForSave(messages)))

\* variant: clearChat leaves the container as it is
clearChatKeepsMessages(messages) == messages

\* lines 393-403: the container after clearChat, its first element kept
clearChat(messages) == IF messages = <<>> THEN <<>> ELSE <<messages[1]>>

\* lines 335-348
WebviewLoadChatHistory(messages, loaded) ==
    IF Len(loaded) = 0 THEN messages
    ELSE clearChat(messages) \o [i \in 1..Len(loaded) |-> Element(loaded[i].type, loaded[i].content)]

\* what the user types into the input
UserInputs == {<<" ">>, <<" ", "*", "b", "*">>}

\* the panel has just been opened by createOrShow, or adopted by restore with
\* the history of an earlier session in the store, and its page has loaded
WebviewInit ==
    /\ BackendIdle
    /\ client = NoClient
    /\ handlers = [h \in Handlers |-> NoHandler]
    /\ \E history \in Histories, origin \in {"created", "restored"} :
          /\ provider = [panel |-> 1,
                         history |-> IF origin = "created" THEN <<>> ELSE history,
                         found |-> history, saved |-> FALSE]
          /\ panels = [p \in Panels |->
                          IF p = 1 THEN OpenedPanel(origin, origin = "created")
                          ELSE NoPanel]
    /\ webview = [NoWebview EXCEPT !.messages = <<Welcome>>]

\* lines 263-277: the user sends what they typed
SendMessage(input) ==
    /\ webview.typed < MaxTyped
    /\ IF Trim(input) = <<>>
       THEN UNCHANGED webview
       ELSE webview' = [webview EXCEPT
               !.messages = Append(@, Element("user", Trim(input))),
               !.cleared = FALSE,
               !.saveTimers = @ + 1,
               !.typed = @ + 1,
               !.outbox = Append(@, Message("sendMessage", Trim(input)))]
    /\ UNCHANGED <<provider, panels, handlers, backendVars, client>>

\* line 312: a timer set by addMessage fires and runs saveChatHistory
SaveTimerFires ==
    /\ webview.saveTimers > 0
    /\ webview' = [webview EXCEPT
          !.saveTimers = @ - 1,
          !.outbox = WebviewSaveChatHistory(webview.messages, @)]
    /\ UNCHANGED <<provider, panels, handlers, backendVars, client>>

\* lines 393-406: the Clear Chat button
ClearChat ==
    /\ webview' = [webview EXCEPT
          !.messages = clearChat(@),
          !.cleared = Len(webview.messages) > 1,
          !.outbox = WebviewSaveChatHistory(clearChat(webview.messages), @)]
    /\ UNCHANGED <<provider, panels, handlers, backendVars, client>>

\* lines 436-463: the script handles the next message the provider posted
HandleIncomingMessage ==
    /\ webview.delivered < Len(panels[1].posted)
    /\ LET message == panels[1].posted[webview.delivered + 1]
       IN webview' =
             CASE message.type = "aiResponse" ->
                    [webview EXCEPT !.delivered = @ + 1,
                                    !.messages = Append(@, Element("ai", message.payload)),
                                    !.cleared = FALSE,
                                    !.saveTimers = @ + 1]
               [] message.type = "loadChatHistory" ->
                    [webview EXCEPT !.delivered = @ + 1,
                                    !.messages = WebviewLoadChatHistory(@, message.payload)]
               [] OTHER -> [webview EXCEPT !.delivered = @ + 1]
    /\ UNCHANGED <<provider, panels, handlers, backendVars, client>>

\* lines 181-204: the provider handles the next message of the webview
HandleWebviewMessage ==
    /\ webview.outbox # <<>>
    /\ webview' = [webview EXCEPT !.outbox = Tail(@)]
    /\ LET message == Head(webview.outbox)
       IN IF message.type = "saveChatHistory"
          THEN /\ provider' = [saveChatHistory(provider, message.payload) EXCEPT
                                  !.saved = TRUE]
               /\ UNCHANGED <<panels, handlers>>
          ELSE /\ HandleUserMessage(message.payload)
               /\ UNCHANGED provider
    /\ UNCHANGED <<backendVars, client>>

\* in the exchange with the webview the gatherer and the backend succeed
FilesGathered == {Fulfilled("files")}
BackendAnswered == {Fulfilled("ok")}

WebviewNext ==
    \/ \E input \in UserInputs : SendMessage(input)
    \/ SaveTimerFires
    \/ ClearChat
    \/ HandleIncomingMessage
    \/ HandleWebviewMessage
    \/ \E visible \in BOOLEAN, active \in BOOLEAN : ViewStateChange(1, visible, active)
    \/ LoadTimerFires(1)
    \/ \E h \in Handlers, outcome \in FilesGathered : GatherSettles(h, outcome)
    \/ \E h \in Handlers, outcome \in BackendAnswered : BackendSettles(h, outcome)

WebviewSpec == WebviewInit /\ [][WebviewNext]_vars

\* the next message the script handles is a LOAD_CHAT_HISTORY
LoadIsNext ==
    /\ webview.delivered < Len(panels[1].posted)
    /\ panels[1].posted[webview.delivered + 1].type = "loadChatHistory"

(***************************************************************************)
(* C30: clearChat never causes a SAVE_CHAT_HISTORY: it leaves at most the  *)
(* first element in the container, the list collected from that is empty,  *)
(* and saveChatHistory, called by clearChat or by a timer that was pending, *)
(* returns without posting; the stored history stays as it was.  A         *)
(* LOAD_CHAT_HISTORY handled later puts the stored messages back into the  *)
(* container.                                                              *)
(***************************************************************************)
C30_ClearChatNeverSaves ==
    [][/\ ClearChat =>
             /\ webview'.outbox = webview.outbox
             /\ provider'.history = provider.history
             /\ Len(webview'.messages) <= 1
             /\ collectMessagesForSave(webview'.messages) = <<>>
       /\ (SaveTimerFires /\ Len(webview.messages) <= 1) =>
             webview'.outbox = webview.outbox
       /\ (HandleIncomingMessage /\ LoadIsNext) =>
             /\ webview'.messages[1] = webview.messages[1]
             /\ collectMessagesForSave(webview'.messages)
                   = panels[1].posted[webview.delivered + 1].payload
             /\ webview'.outbox = webview.outbox]_vars

\* the chat was cleared with nothing on its way to the extension, the store
\* kept the history, and a LOAD_CHAT_HISTORY has put it back on display
C30_Witness ==
    /\ webview.cleared
    /\ webview.outbox = <<>>
    /\ webview.saveTimers = 0
    /\ provider.history # <<>>
    /\ Len(webview.messages) > 1
    /\ collectMessagesForSave(webview.messages) = provider.history

====
